---- MODULE Spec2Model ----
(***************************************************************************)
(* GitMentor: the profile-analysis pipeline.                               *)
(*                                                                         *)
(*   GithubService.getDeveloperProfile   (profile aggregation)             *)
(*   OpenAIService.prepareProfileData    (prompt formatting)               *)
(*   OpenAIService.get<Section>          (five section analyzers)          *)
(*   OpenAIService.analyzeDeveloperProfile (fan-out, merge, onUpdate)      *)
(*   POST handlers of api/analysis/analyze (callers)                       *)
(*                                                                         *)
(* A JavaScript string is modelled as a sequence of tokens: a token is a   *)
(* blank " ", a line break "\n", a bullet "-", a dot ".", a run of digits  *)
(* ("7", "10") or an opaque word. The empty string is << >>.  A number     *)
(* with one decimal is kept in tenths (7.5 is 75).                         *)
(*                                                                         *)
(* Execution follows the JavaScript event loop: a response of an external  *)
(* service is a task; the promise reactions it enables (then, catch,       *)
(* Promise.all, the continuation of an await) are microtasks, which all    *)
(* run before the next task is taken.                                      *)
(***************************************************************************)
EXTENDS Integers, Sequences, FiniteSets, TLC

(***************************************************************************)
(* Strings                                                                 *)
(***************************************************************************)

DigitTokens == {"0", "7", "10", "99"}

DigitValue(t) ==
  CASE t = "0" -> 0
    [] t = "7" -> 7
    [] t = "10" -> 10
    [] t = "99" -> 99

\* \s of a regular expression, and what String.prototype.trim removes
IsSpace(t) == t \in {" ", "\n"}

\* the first index >= i of s that holds no white space (Len(s)+1 if none)
SkipSpaces(s, i) ==
  IF \E j \in i..Len(s) : ~IsSpace(s[j])
  THEN CHOOSE j \in i..Len(s) : ~IsSpace(s[j]) /\ \A k \in i..(j-1) : IsSpace(s[k])
  ELSE Len(s) + 1

\* String.prototype.trim
Trim(s) ==
  LET first == SkipSpaces(s, 1)
      last == IF \E j \in 1..Len(s) : ~IsSpace(s[j])
              THEN CHOOSE j \in 1..Len(s) : ~IsSpace(s[j]) /\ \A k \in (j+1)..Len(s) : IsSpace(s[k])
              ELSE 0
  IN SubSeq(s, first, last)

\* String.prototype.split on a separator of `width` equal tokens `sep`
\* ('\n' is one line break, '\n\n' is two)
IsSepAt(s, i, sep, width) ==
  /\ i + width - 1 <= Len(s)
  /\ \A k \in 0..(width-1) : s[i+k] = sep

RECURSIVE Split(_, _, _)
Split(s, sep, width) ==
  IF \E i \in 1..Len(s) : IsSepAt(s, i, sep, width)
  THEN LET i == CHOOSE i \in 1..Len(s) :
                  /\ IsSepAt(s, i, sep, width)
                  /\ \A j \in 1..(i-1) : ~IsSepAt(s, j, sep, width)
       IN <<SubSeq(s, 1, i-1)>> \o Split(SubSeq(s, i+width, Len(s)), sep, width)
  ELSE <<s>>

(***************************************************************************)
(* Section analyzers: parsing of the completion text                       *)
(***************************************************************************)

Sections ==
  {"strengths", "areasForImprovement", "recommendations", "technicalAssessment", "profileRating"}

\* the keys of DeveloperAnalysis in declaration order
SectionOrder ==
  <<"strengths", "areasForImprovement", "recommendations", "technicalAssessment", "profileRating">>

ListSections == {"strengths", "areasForImprovement", "recommendations"}

\* where /^-\s*|\d+\.\s*/ matches when tried at index i: the index after the
\* match, 0 when it does not match at i
MarkerEnd(line, i) ==
  IF i = 1 /\ line[1] = "-" THEN SkipSpaces(line, 2)
  ELSE IF line[i] \in DigitTokens /\ i + 1 <= Len(line) /\ line[i+1] = "."
       THEN SkipSpaces(line, i + 2)
       ELSE 0

\* line.replace(/^-\s*|\d+\.\s*/, ''): the leftmost match is removed
StripMarker(line) ==
  IF \E i \in 1..Len(line) : MarkerEnd(line, i) # 0
  THEN LET i == CHOOSE i \in 1..Len(line) :
                  /\ MarkerEnd(line, i) # 0
                  /\ \A j \in 1..(i-1) : MarkerEnd(line, j) = 0
       IN SubSeq(line, 1, i-1) \o SubSeq(line, MarkerEnd(line, i), Len(line))
  ELSE line

NonEmpty(line) == line # << >>

\* content.split('\n').map(line => line.replace(...).trim()).filter(line => line)
ParseList(content) ==
  LET lines == Split(content, "\n", 1)
      mapped == [i \in 1..Len(lines) |-> Trim(StripMarker(lines[i]))]
  IN SelectSeq(mapped, NonEmpty)

\* the result of an analyzer: a value, or the error it throws
Ok(v) == [ok |-> TRUE, value |-> v]
Err(e) == [ok |-> FALSE, error |-> e]

ListAnalyzerLenient(content) == Ok(ParseList(content))

\* getStrengths, getAreasForImprovement, getRecommendations after the await
ListAnalyzer(content) ==
  IF content = << >> THEN Err("CompletionError") ELSE Ok(ParseList(content))

\* getTechnicalAssessment after the await
TextAnalyzer(content) ==
  IF content = << >> THEN Err("CompletionError") ELSE Ok(Trim(content))

\* content.match(/Rating:\s*(\d+(?:\.\d+)?)/): does it match at index i
RatingAt(content, i) ==
  /\ content[i] = "Rating:"
  /\ SkipSpaces(content, i + 1) <= Len(content)
  /\ content[SkipSpaces(content, i + 1)] \in DigitTokens

\* parseFloat(ratingMatch[1]), in tenths
RatingValue(content) ==
  LET i == CHOOSE i \in 1..Len(content) :
             RatingAt(content, i) /\ \A j \in 1..(i-1) : ~RatingAt(content, j)
      d == SkipSpaces(content, i + 1)
      frac == IF /\ d + 2 <= Len(content)
                 /\ content[d+1] = "."
                 /\ content[d+2] \in DigitTokens
                 /\ DigitValue(content[d+2]) < 10
              THEN DigitValue(content[d+2]) ELSE 0
  IN 10 * DigitValue(content[d]) + frac

\* sections.find(s => s.startsWith(label)), << >> standing for undefined
FindSection(sections, label) ==
  IF \E i \in 1..Len(sections) : sections[i] # << >> /\ sections[i][1] = label
  THEN LET i == CHOOSE i \in 1..Len(sections) :
                  /\ sections[i] # << >> /\ sections[i][1] = label
                  /\ \A j \in 1..(i-1) : ~(sections[j] # << >> /\ sections[j][1] = label)
       IN sections[i]
  ELSE << >>

\* the markdown explanation built from the two found sections
Explanation(content) ==
  LET sections == Split(content, "\n", 2)
      detailedBreakdown == FindSection(sections, "Detailed Breakdown:")
      overallAssessment == FindSection(sections, "Overall Assessment:")
      first == IF detailedBreakdown # << >>
               THEN <<"### Detailed Breakdown">> \o Tail(detailedBreakdown) \o <<"\n", "\n">>
               ELSE << >>
      second == IF overallAssessment # << >>
                THEN <<"### Overall Assessment">> \o Tail(overallAssessment)
                ELSE << >>
  IN first \o second

RatingAnalyzerLenient(content) ==
  IF content = << >> THEN Err("CompletionError")
  ELSE IF ~\E i \in 1..Len(content) : RatingAt(content, i) THEN Err("ParseError")
  ELSE Ok([score |-> RatingValue(content), explanation |-> Trim(Explanation(content))])

\* getProfileRating after the await
RatingAnalyzer(content) ==
  IF content = << >> THEN Err("CompletionError")
  ELSE IF ~\E i \in 1..Len(content) : RatingAt(content, i) THEN Err("ParseError")
  ELSE IF Explanation(content) = << >> THEN Err("ParseError")
  ELSE Ok([score |-> RatingValue(content), explanation |-> Trim(Explanation(content))])

\* content.match(/Explanation:\s*(.*)/)[1] of the simple variant,
\* part_002:681: the rest of the line after the label and any white space
ExplanationMatch(content) ==
  LET i == CHOOSE i \in 1..Len(content) :
             content[i] = "Explanation:" /\ \A j \in 1..(i-1) : content[j] # "Explanation:"
      first == SkipSpaces(content, i + 1)
      last == IF \E j \in first..Len(content) : content[j] = "\n"
              THEN (CHOOSE j \in first..Len(content) :
                      content[j] = "\n" /\ \A k \in first..(j-1) : content[k] # "\n") - 1
              ELSE Len(content)
  IN SubSeq(content, first, last)

\* getProfileRating of the simple variant after the await, part_002:669-690
RatingAnalyzerSimple(content) ==
  IF content = << >> THEN Err("CompletionError")
  ELSE IF ~\E i \in 1..Len(content) : RatingAt(content, i) THEN Err("ParseError")
  ELSE IF ~\E i \in 1..Len(content) : content[i] = "Explanation:" THEN Err("ParseError")
  ELSE Ok([score |-> RatingValue(content), explanation |-> Trim(ExplanationMatch(content))])

Analyzer(section, content) ==
  IF section \in ListSections THEN ListAnalyzer(content)
  ELSE IF section = "technicalAssessment" THEN TextAnalyzer(content)
  ELSE RatingAnalyzer(content)

(***************************************************************************)
(* Report values                                                           *)
(***************************************************************************)

\* the report as created at part_002:368-377
Initial(section) ==
  IF section = "profileRating" THEN [score |-> 0, explanation |-> << >>]
  ELSE << >>

\* the placeholders of the five catch handlers, part_002:395-426
Fallback(section) ==
  CASE section = "strengths" -> << <<"Failed to analyze strengths">> >>
    [] section = "areasForImprovement" -> << <<"Failed to analyze areas for improvement">> >>
    [] section = "recommendations" -> << <<"Failed to get recommendations">> >>
    [] section = "technicalAssessment" -> <<"Failed to get technical assessment">>
    [] section = "profileRating" ->
         [score |-> 0, explanation |-> <<"Failed to get profile rating">>]

\* the fixed report of the reserved handle, part_002:344-353 (score 10 is 100 tenths)
Celebratory(section) ==
  IF section \in ListSections THEN << <<"I created git bro">> >>
  ELSE IF section = "technicalAssessment" THEN <<"I created git bro">>
  ELSE [score |-> 100, explanation |-> <<"I created git bro">>]

ReservedName == "torvalds"

ToLowerCaseOmitted(name) == name

\* String.prototype.toLowerCase on the handles of the model
ToLowerCase(name) == IF name = "Torvalds" THEN "torvalds" ELSE name

(***************************************************************************)
(* Inputs                                                                  *)
(***************************************************************************)

\* the most repositories the data source lists for a handle
MaxRepos == 2

\* the star counts a listed repository may have
StarCounts == {2, 50}

\* the most invocations of onUpdate that raise in one run
MaxRaises == 1

Usernames == {"octocat", "torvalds", "Torvalds"}

\* completion texts the model returns for the strengths: none, a blank
\* line, one bullet
ListContents == { << >>, <<"\n">>, <<"-", " ", "a">> }

\* completion texts for the two other list sections, which run the same
\* parsing statement: none, one bullet
ShortListContents == { << >>, <<"-", " ", "a">> }

\* completion texts for the technical assessment
TextContents == { << >>, <<" ">>, <<"a">> }

GoodRating ==
  <<"Rating:", " ", "7", "/10", "\n", "\n", "Detailed Breakdown:", "\n", "x",
    "\n", "\n", "Overall Assessment:", "\n", "y">>

\* completion texts for the rating
RatingContents == { << >>, <<"a">>, GoodRating }

Contents(section) ==
  IF section = "strengths" THEN ListContents
  ELSE IF section \in ListSections THEN ShortListContents
  ELSE IF section = "technicalAssessment" THEN TextContents
  ELSE RatingContents

\* what the data source lists for one repository
RawRepos == [fork : BOOLEAN, archived : BOOLEAN, stars : StarCounts]

RECURSIVE SeqsUpTo(_, _)
SeqsUpTo(S, n) ==
  IF n = 0 THEN { << >> }
  ELSE LET shorter == SeqsUpTo(S, n - 1)
       IN shorter \cup { Append(q, x) : q \in { r \in shorter : Len(r) = n - 1 }, x \in S }

Listings == SeqsUpTo(RawRepos, MaxRepos)

\* failures of a data-source call: 404, 403 with 'API rate limit exceeded', others
DataSourceErrors == {"NotFound", "RateLimit403", "Upstream"}

\* the longest listing enumerated in full for the data functions
MaxListed == 3

\* the longest run of like repositories in a long listing
MaxBlock == 9

ListedStars == {2, 10, 50}

\* a listed repository with its place in the listing (its discovery order)
ListedRepos ==
  [id : 1..(2 * MaxBlock + 1), fork : BOOLEAN, archived : BOOLEAN, stars : ListedStars]

AnyRepos == RawRepos \cup ListedRepos

\* every listing of up to MaxListed repositories
ShortListings ==
  { [i \in 1..Len(q) |->
       [id |-> i, fork |-> q[i].fork, archived |-> q[i].archived, stars |-> q[i].stars]] :
    q \in SeqsUpTo([fork : BOOLEAN, archived : BOOLEAN, stars : ListedStars], MaxListed) }

\* a long listing: f forks with 50 stars, a archived repositories, then o
\* repositories of the user's own with s stars
Blocks(f, a, o, s) ==
  [i \in 1..(f + a + o) |->
     [id |-> i,
      fork |-> i <= f,
      archived |-> (i > f /\ i <= f + a),
      stars |-> IF i <= f + a THEN 50 ELSE s]]

LongListings ==
  { Blocks(f, a, o, s) : f \in 0..MaxBlock, a \in 0..1, o \in 0..MaxBlock, s \in ListedStars }

\* the languages and byte counts of the model
Languages == {"X", "Y"}
ByteCounts == {3, 5}

\* the language maps a repository may carry: { [key: string]: number }
LanguageMaps == UNION { [D -> ByteCounts] : D \in SUBSET Languages }

\* a repository as far as the statistics read it: its primary language
\* ("none" for null) and its language bytes
StatRepos == [language : Languages \cup {"none"}, languages : LanguageMaps]

\* the most repositories of a profile whose statistics are computed
MaxProfileRepos == 2

RepoLists == SeqsUpTo(StatRepos, MaxProfileRepos)

\* the longest completion text enumerated in full for the list sections and
\* the technical assessment, and for the rating
MaxTextTokens == 4
MaxRatingTokens == 4

TextTokens == {" ", "\n", "-", "7", ".", "a"}

RatingTokens ==
  {"Rating:", " ", "\n", "7", "99", ".", "Detailed Breakdown:", "Overall Assessment:",
   "Explanation:", "a"}

\* longer rating texts: a rating line, a separator, a body
RatingHeads ==
  { <<"Rating:", " ", "7", "/10">>, <<"Rating:", "10", "/10">>, <<"Rating:", " ", "0">>,
    <<"Rating:", " ", "7", ".", "7", "/10">>, <<"Rating:", " ", "99", "/10">>,
    <<"Score:", " ", "7">> }

RatingBodies ==
  { << >>, <<"a">>,
    <<"Detailed Breakdown:">>,
    <<"Detailed Breakdown:", "\n", "x">>,
    <<"Overall Assessment:", "\n", "y">>,
    <<"Detailed Breakdown:", "\n", "x", "\n", "\n", "Overall Assessment:", "\n", "y">>,
    <<"Explanation:">>, <<"Explanation:", " ", "a">>, <<"Explanation:", " ", "\n", "a">> }

LongRatings ==
  { head \o gap \o body :
      head \in RatingHeads, gap \in { <<"\n">>, <<"\n", "\n">> }, body \in RatingBodies }

\* the completion texts on which an analyzer is applied on its own
Texts(section) ==
  IF section = "profileRating"
  THEN SeqsUpTo(RatingTokens, MaxRatingTokens) \cup LongRatings
  ELSE SeqsUpTo(TextTokens, MaxTextTokens)

\* the byte counts of a language map handed to the formatter
EntryBytes == {0} \cup ByteCounts

\* a language map with its keys in insertion order, as Object.entries and
\* Object.values walk it
EntryMaps ==
  { q \in SeqsUpTo([lang : Languages, bytes : EntryBytes], Cardinality(Languages)) :
      \A i, j \in 1..Len(q) : i # j => q[i].lang # q[j].lang }

\* a repository as far as the formatter's percentages read it
FormatRepos == [language : {"X", "none"}, languages : EntryMaps]

\* the most repositories of a profile handed to the formatter
MaxFormatRepos == 1

\* the profiles handed to the formatter: languageStats is whatever the
\* caller posted, it need not agree with the repositories
FormatProfiles ==
  [languageStats : EntryMaps, repositories : SeqsUpTo(FormatRepos, MaxFormatRepos)]

\* the most commits of the handle a fork may hold
MaxAuthored == 101

\* what the lookups of one repository meet: is it a fork, does repos.get
\* report a parent, how many commits the handle authored in it
ForkLookups == [fork : BOOLEAN, hasParent : BOOLEAN, authored : 0..MaxAuthored]

\* the requests served at the same time
MaxRuns == 2

Requests == 1..MaxRuns

(***************************************************************************)
(* State                                                                   *)
(***************************************************************************)

VARIABLES
  entry,          \* who calls: "username" (route.ts:162-201), "stream"
                  \* (route.ts:5-56), "library" (any caller of the public
                  \* method), "user" (api/github/user/route.ts)
  username,       \* the username of the request body ("" when missing)
  profile,        \* the DeveloperProfile handed to analyzeDeveloperProfile
  pc,             \* position of the caller
  response,       \* the HTTP response of the caller
  userCall,       \* users.getByUsername inside getUserProfile
  listCall,       \* repos.listForUser inside getUserRepositories
  repos,          \* filteredRepos, then the sorted result
  lookup,         \* per repository: position of its async map function
  reposPromise,   \* the promise of getUserRepositories
  profilePromise, \* the promise of getDeveloperProfile
  rateInfo,       \* the outcome of the last rateLimit.get: "none" before any,
                  \* "reset" (the reset time was obtained), "failed"
  run,            \* position / promise of analyzeDeveloperProfile
  call,           \* per section: the promise of get<Section>
  returned,       \* per section: the value get<Section> fulfilled with
  thenPromise,    \* per section: get<Section>(...).then(...)
  promises,       \* per section: ....then(...).catch(...), joined by Promise.all
  analysis,       \* the report object
  writes,         \* per section: how often updateSection assigned the slot
  updates,        \* the onUpdate invocations so far, in order
  raises,         \* how often onUpdate has raised
  variant,        \* which POST of the stream route serves the request:
                  \* "plain" (route.ts:5-56), "logging" (route.ts:62-156)
  stream,         \* the events enqueued on the response stream, in order
  writer,         \* the writable side of the stream: "open", "closed", "errored"
  input,          \* the argument of a data function applied on its own
  output,         \* what that function returned
  runs,           \* two requests in flight, per request: the report object
                  \* its closure holds (0 before it is created) and the
                  \* state of its five section calls
  reports,        \* the heap: per report object, what each slot holds
  streams,        \* per request: the events its callback has enqueued
  client,         \* the page of the browser: the state of Home and of its
                  \* one handleSubmit call (page.tsx:14-75)
  chain,          \* what the callback and the handlers of the stream route
                  \* have done: whether a write of the callback failed, the
                  \* calls of writer.close(), the writes issued after such a
                  \* call, and whether the last promise of the chain
                  \* rejected (nothing handles it)
  served          \* per request the username route has answered before the
                  \* current one: the handle it generated a report for (""
                  \* when it generated none)

aggVars == <<userCall, listCall, repos, lookup, reposPromise, profilePromise, rateInfo>>
runVars == <<run, call, returned, thenPromise, promises, analysis, writes, updates, raises, stream>>
transportVars == <<variant, writer>>
dataVars == <<input, output>>
pairVars == <<runs, reports, streams>>
vars ==
  <<entry, username, profile, pc, response, aggVars, runVars, transportVars, dataVars, pairVars,
    client, served, chain>>

Nothing == [kind |-> "none"]

\* no request of the concurrent pair has started
PairIdle ==
  /\ runs = [r \in Requests |-> [analysis |-> 0, calls |-> [s \in Sections |-> "idle"]]]
  /\ reports = [o \in Requests |-> [s \in Sections |-> [by |-> 0, section |-> s]]]
  /\ streams = [r \in Requests |-> {}]

\* Home before the form is submitted, page.tsx:15-18
ClientIdle ==
  [at |-> "idle", username |-> << >>, loading |-> FALSE, error |-> "none", data |-> "none",
   timer |-> "none", request |-> "none", response |-> Nothing, elapsed |-> 0]

\* the promise chain of the stream route before the run settles
NoChain == [writeFailed |-> FALSE, closes |-> 0, lateWrites |-> 0, unhandled |-> FALSE]

NoProfile == [given |-> FALSE, username |-> "", wellFormed |-> FALSE]
NoResponse == [status |-> 0, body |-> "none"]

Idle == [at |-> "idle", error |-> "none"]
InFlight == [at |-> "inflight", error |-> "none"]
Rejected(e) == [at |-> "rejected", error |-> e]

\* the profiles a client may post: well-formed ones, and one on which
\* prepareProfileData throws (languageStats or repositories missing)
PostedProfiles ==
  { [given |-> TRUE, username |-> u, wellFormed |-> TRUE] : u \in Usernames }
    \cup { [given |-> TRUE, username |-> "octocat", wellFormed |-> FALSE], NoProfile }

InitWith(entries) ==
  /\ entry \in entries
  /\ IF entry \in {"username", "user"}
     THEN username \in Usernames \cup {""} /\ profile = NoProfile
     ELSE username = "" /\ profile \in PostedProfiles
  /\ pc = "start"
  /\ response = NoResponse
  /\ userCall = Idle
  /\ listCall = Idle
  /\ repos = << >>
  /\ lookup = << >>
  /\ reposPromise = Idle
  /\ profilePromise = Idle
  /\ rateInfo = "none"
  /\ run = "idle"
  /\ call = [s \in Sections |-> "idle"]
  /\ returned = [s \in Sections |-> Initial(s)]
  /\ thenPromise = [s \in Sections |-> "pending"]
  /\ promises = [s \in Sections |-> "pending"]
  /\ analysis = [s \in Sections |-> Initial(s)]
  /\ writes = [s \in Sections |-> 0]
  /\ updates = << >>
  /\ raises = 0
  /\ variant \in (IF entry = "stream" THEN {"plain", "logging"} ELSE {"none"})
  /\ stream = << >>
  /\ writer = "open"
  /\ input = Nothing
  /\ output = Nothing
  /\ PairIdle
  /\ client = ClientIdle
  /\ served = << >>
  /\ chain = NoChain

\* the application as deployed: its two kinds of route
Init == InitWith({"username", "stream"})

(***************************************************************************)
(* Event loop                                                              *)
(***************************************************************************)

Settled(p) == p # "pending"
\* Promise.all(promises), part_002:430: when it fulfils, when it rejects
AnyFulfilled == \E s \in Sections : promises[s] = "fulfilled"
AllFulfilled == \A s \in Sections : promises[s] = "fulfilled"
SomeFailed == \E s \in Sections : call[s] \in {"CompletionError", "ParseError"}
SomeRejected == \E s \in Sections : promises[s] = "rejected"

LookupsDone == \A i \in 1..Len(lookup) : lookup[i].at = "done"
LookupRejected == \E i \in 1..Len(lookup) : lookup[i].at = "rejected"

\* a promise reaction or a synchronous continuation is waiting to run
MicrotaskPending ==
  \/ \E s \in Sections : call[s] \notin {"idle", "pending"} /\ promises[s] = "pending"
  \/ run = "awaiting" /\ (AllFulfilled \/ SomeRejected)
  \/ run \in {"start", "format", "launch"}
  \/ pc \in {"analyzing", "streaming"} /\ run \in {"resolved", "rejected"}
  \/ reposPromise.at = "pending" /\ listCall.at = "ok" /\ (LookupsDone \/ LookupRejected)
  \/ /\ profilePromise.at = "pending"
     /\ \/ userCall.at = "rejected" \/ reposPromise.at = "rejected"
        \/ userCall.at = "ok" /\ reposPromise.at = "fulfilled"

\* a response of an external service is taken only with no microtask left
TaskReady == ~MicrotaskPending

(***************************************************************************)
(* GithubService                                                           *)
(***************************************************************************)

\* handleRateLimitError, part_003:240: does the error take the rate-limit branch
IsRateLimit(error) == error = "RateLimit403"

\* handleRateLimitError, part_003:241-257: what is thrown once the
\* rateLimit.get call has settled. The error naming the minutes is thrown
\* inside the try block, whose catch replaces it by the generic one.
CatchRateError(rateError) == "RateLimitHour"

\* how the await of rateLimit.get() at part_003:243 ended
RateInfo(infoOk) == IF infoOk THEN "reset" ELSE "failed"

RateLimitError(infoOk) ==
  LET thrownInTry == IF infoOk THEN "RateLimitMinutes" ELSE "RateInfoFailed"
  IN CatchRateError(thrownInTry)

\* handleRateLimitError: the state of the caller's promise when it is called
\* with error (it always throws, so the statement after the await never runs)
HandleRateLimitError(error) ==
  IF IsRateLimit(error) THEN [at |-> "rateCheck", error |-> error]
  ELSE Rejected(error)

\* Array.prototype.sort (stable); Before[a, b] says that a sorts before b
StableSort(seq, Before) ==
  LET n == Len(seq)
      rank(i) == Cardinality({ j \in 1..n : Before[seq[j], seq[i]] })
                 + Cardinality({ j \in 1..(i-1) :
                      ~Before[seq[j], seq[i]] /\ ~Before[seq[i], seq[j]] })
                 + 1
  IN [k \in 1..n |-> seq[CHOOSE i \in 1..n : rank(i) = k]]

\* the comparator of part_003:366
MoreStars == [a \in AnyRepos, b \in AnyRepos |-> a.stars > b.stars]

\* the comparator of part_003:419-426
OwnedFirst ==
  [a \in AnyRepos, b \in AnyRepos |-> IF a.fork = b.fork THEN a.stars > b.stars ELSE ~a.fork]

KeepAll(r) == TRUE

NotArchived(r) == ~r.archived

\* slice(0, 15), part_003:367
MaxRepositories == 15

\* part_003:364-367
FilteredRepos(data) ==
  LET sorted == StableSort(SelectSeq(data, NotArchived), MoreStars)
  IN SubSeq(sorted, 1, IF Len(sorted) < MaxRepositories THEN Len(sorted) ELSE MaxRepositories)

\* POST of the username route up to its first await, route.ts:164-178, with
\* getDeveloperProfile up to its Promise.all, part_003:312-315
PostUsername ==
  /\ entry = "username" /\ pc = "start"
  /\ IF username = ""
     THEN /\ response' = [status |-> 400, body |-> "GitHub username is required"]
          /\ pc' = "done"
          /\ UNCHANGED aggVars
     ELSE /\ userCall' = InFlight
          /\ listCall' = InFlight
          /\ reposPromise' = [at |-> "pending", error |-> "none"]
          /\ profilePromise' = [at |-> "pending", error |-> "none"]
          /\ pc' = "aggregating"
          /\ UNCHANGED <<response, repos, lookup>>
  /\ UNCHANGED <<entry, chain, served, client, pairVars, input, output, rateInfo, variant, writer, username, profile, runVars>>

\* getUserProfile after users.getByUsername settles, part_003:262-280
UserResponse ==
  /\ TaskReady /\ userCall.at = "inflight"
  /\ \E ok \in BOOLEAN, e \in DataSourceErrors :
       userCall' = IF ok THEN [at |-> "ok", error |-> "none"] ELSE HandleRateLimitError(e)
  /\ UNCHANGED <<entry, chain, served, client, pairVars, input, output, rateInfo, variant, writer, username, profile, pc, response, listCall, repos, lookup,
                 reposPromise, profilePromise, runVars>>

\* handleRateLimitError called by getUserProfile, after rateLimit.get settles
UserRateInfo ==
  /\ TaskReady /\ userCall.at = "rateCheck"
  /\ \E infoOk \in BOOLEAN :
       /\ userCall' = Rejected(RateLimitError(infoOk))
       /\ rateInfo' = RateInfo(infoOk)
  /\ UNCHANGED <<entry, chain, served, client, pairVars, input, output, variant, writer, username, profile, pc, response, listCall, repos, lookup,
                 reposPromise, profilePromise, runVars>>

\* getUserRepositories after repos.listForUser settles, part_003:355-372 and
\* its catch, part_003:428-431
ListResponse ==
  /\ TaskReady /\ listCall.at = "inflight"
  /\ \/ \E data \in Listings :
          /\ listCall' = [at |-> "ok", error |-> "none"]
          /\ repos' = FilteredRepos(data)
          /\ lookup' = [i \in 1..Len(FilteredRepos(data)) |->
                          [at |-> "languages", error |-> "none"]]
          /\ UNCHANGED reposPromise
     \/ \E e \in DataSourceErrors :
          /\ listCall' = Rejected(e)
          /\ reposPromise' = HandleRateLimitError(e)
          /\ UNCHANGED <<repos, lookup>>
  /\ UNCHANGED <<entry, chain, served, client, pairVars, input, output, rateInfo, variant, writer, username, profile, pc, response, userCall, profilePromise, runVars>>

\* getRepositoryLanguages after repos.listLanguages settles, part_003:298-309,
\* and the map function up to its next await, part_003:372-382
LanguagesResponse(i) ==
  /\ TaskReady /\ lookup[i].at = "languages"
  /\ \E ok \in BOOLEAN, e \in DataSourceErrors \ {"NotFound"} :
       lookup' = [lookup EXCEPT ![i] =
                    IF ok
                    THEN [at |-> IF repos[i].fork THEN "parent" ELSE "done", error |-> "none"]
                    ELSE HandleRateLimitError(e)]
  /\ UNCHANGED <<entry, chain, served, client, pairVars, input, output, rateInfo, variant, writer, username, profile, pc, response, userCall, listCall, repos,
                 reposPromise, profilePromise, runVars>>

\* the map function after repos.get settles, part_003:379-395: no handler
\* wraps this call, its error rejects the map function as it is
ParentResponse(i) ==
  /\ TaskReady /\ lookup[i].at = "parent"
  /\ \E ok \in BOOLEAN, hasParent \in BOOLEAN, e \in DataSourceErrors \ {"NotFound"} :
       lookup' = [lookup EXCEPT ![i] =
                    IF ok
                    THEN [at |-> IF hasParent THEN "commits" ELSE "done", error |-> "none"]
                    ELSE Rejected(e)]
  /\ UNCHANGED <<entry, chain, served, client, pairVars, input, output, rateInfo, variant, writer, username, profile, pc, response, userCall, listCall, repos,
                 reposPromise, profilePromise, runVars>>

\* checkForkContributions after repos.listCommits settles, part_003:332-350
CommitsResponse(i) ==
  /\ TaskReady /\ lookup[i].at = "commits"
  /\ \E ok \in BOOLEAN, e \in DataSourceErrors \ {"NotFound"} :
       lookup' = [lookup EXCEPT ![i] =
                    IF ok THEN [at |-> "done", error |-> "none"]
                    ELSE HandleRateLimitError(e)]
  /\ UNCHANGED <<entry, chain, served, client, pairVars, input, output, rateInfo, variant, writer, username, profile, pc, response, userCall, listCall, repos,
                 reposPromise, profilePromise, runVars>>

\* handleRateLimitError called by getRepositoryLanguages or
\* checkForkContributions, after rateLimit.get settles
LookupRateInfo(i) ==
  /\ TaskReady /\ lookup[i].at = "rateCheck"
  /\ \E infoOk \in BOOLEAN :
       /\ lookup' = [lookup EXCEPT ![i] = Rejected(RateLimitError(infoOk))]
       /\ rateInfo' = RateInfo(infoOk)
  /\ UNCHANGED <<entry, chain, served, client, pairVars, input, output, variant, writer, username, profile, pc, response, userCall, listCall, repos,
                 reposPromise, profilePromise, runVars>>

\* Promise.all over the map functions settles, part_003:370, then the final
\* sort, part_003:419-426, or the catch, part_003:428-431
ReposJoin ==
  /\ reposPromise.at = "pending" /\ listCall.at = "ok"
  /\ IF LookupRejected
     THEN LET i == CHOOSE i \in 1..Len(lookup) : lookup[i].at = "rejected"
          IN /\ reposPromise' = HandleRateLimitError(lookup[i].error)
             /\ UNCHANGED repos
     ELSE /\ LookupsDone
          /\ reposPromise' = [at |-> "fulfilled", error |-> "none"]
          /\ repos' = StableSort(repos, OwnedFirst)
  /\ UNCHANGED <<entry, chain, served, client, pairVars, input, output, rateInfo, variant, writer, username, profile, pc, response, userCall, listCall, lookup,
                 profilePromise, runVars>>

\* handleRateLimitError called by getUserRepositories, after rateLimit.get settles
ReposRateInfo ==
  /\ TaskReady /\ reposPromise.at = "rateCheck"
  /\ \E infoOk \in BOOLEAN :
       /\ reposPromise' = Rejected(RateLimitError(infoOk))
       /\ rateInfo' = RateInfo(infoOk)
  /\ UNCHANGED <<entry, chain, served, client, pairVars, input, output, variant, writer, username, profile, pc, response, userCall, listCall, repos,
                 lookup, profilePromise, runVars>>

\* error.message.includes('rate limit exceeded') ? 429 : 500, route.ts:191
ErrorStatusGeneric(error) == 500

\* the status of an error response, route.ts:191 and user/route.ts:44:
\* error.message.includes('rate limit exceeded') ? 429 : 500
ErrorStatus(error) ==
  IF error \in {"RateLimitHour", "RateLimitMinutes", "RateLimit403"} THEN 429 ELSE 500

UserFulfilled == userCall.at = "ok"

\* has the Promise.all of getDeveloperProfile all its results
AggregationFulfilled == userCall.at = "ok" /\ reposPromise.at = "fulfilled"

ProfileJoinLenient ==
  /\ profilePromise.at = "pending"
  /\ userCall.at \in {"ok", "rejected"} /\ reposPromise.at \in {"fulfilled", "rejected"}
  /\ profilePromise' = [at |-> "fulfilled", error |-> "none"]
  /\ profile' = [given |-> TRUE, username |-> username, wellFormed |-> TRUE]
  /\ run' = "start"
  /\ pc' = "analyzing"
  /\ UNCHANGED <<entry, chain, served, client, pairVars, input, output, rateInfo, variant, writer, username, response, userCall, listCall, repos, lookup, reposPromise,
                 call, returned, thenPromise, promises, analysis, writes, updates, stream, raises>>

\* Promise.all of getDeveloperProfile settles, part_003:312-330, and the
\* route continues, route.ts:178-193: it calls analyzeDeveloperProfile
\* without a callback, or answers with the error
ProfileJoin ==
  /\ profilePromise.at = "pending"
  /\ IF userCall.at = "rejected" \/ reposPromise.at = "rejected"
     THEN LET e == IF userCall.at = "rejected" THEN userCall.error ELSE reposPromise.error
          IN /\ profilePromise' = Rejected(e)
             /\ response' = [status |-> ErrorStatus(e), body |-> e]
             /\ pc' = "done"
             /\ UNCHANGED <<profile, run>>
     ELSE /\ AggregationFulfilled
          /\ profilePromise' = [at |-> "fulfilled", error |-> "none"]
          /\ profile' = [given |-> TRUE, username |-> username, wellFormed |-> TRUE]
          /\ run' = "start"
          /\ pc' = "analyzing"
          /\ UNCHANGED response
  /\ UNCHANGED <<entry, chain, served, client, pairVars, input, output, rateInfo, variant, writer, username, userCall, listCall, repos, lookup, reposPromise,
                 call, returned, thenPromise, promises, analysis, writes, updates, stream, raises>>

(***************************************************************************)
(* OpenAIService.analyzeDeveloperProfile                                   *)
(***************************************************************************)

\* writer.write(chunk): the chunk is enqueued while the writable side is
\* open; on an errored or closed writer the returned promise rejects
Write(events, chunk) == IF writer = "open" THEN Append(events, chunk) ELSE events

\* the stream after the callback of the stream route has been invoked for
\* each of ups, route.ts:31-37 and 98-119: the write is issued in the
\* invocation itself, a rejected write is caught and logged
Relay(events, ups) ==
  IF entry = "stream" /\ writer = "open"
  THEN events \o [i \in 1..Len(ups) |-> ups[i].section]
  ELSE events

\* the catch block of the callback of the stream route, route.ts:35-37 and
\* 113-120: the write of an invocation made on a writer that is not open
\* rejects; the rejection is caught and logged
WriteFailure(c) ==
  IF entry = "stream" /\ writer # "open" THEN [c EXCEPT !.writeFailed = TRUE] ELSE c

\* does the caller pass onUpdate
HasCallback == entry \in {"stream", "library"}

MayRaiseOnFailedWrite ==
  IF (entry = "library" \/ (entry = "stream" /\ writer # "open")) /\ raises < MaxRaises
  THEN BOOLEAN ELSE {FALSE}

\* can an invocation of onUpdate raise: the callback of the stream route is
\* an async function (route.ts:31-37), which never throws to its caller;
\* the type AnalysisCallback (part_002:22) allows any function
MayRaise == IF entry = "library" /\ raises < MaxRaises THEN BOOLEAN ELSE {FALSE}

Update(section, data) == [section |-> section, data |-> data]

\* the onUpdate events of the reserved-handle path when the callback raises
\* on its k-th invocation (k = 0: it never raises), part_002:356-360
CelebratoryUpdates(k) ==
  [i \in 1..(IF k = 0 THEN Len(SectionOrder) ELSE k) |->
     Update(SectionOrder[i], Celebratory(SectionOrder[i]))]

\* the POST of the stream route up to its return, route.ts:5-56 and 62-156,
\* and a direct call: both call analyzeDeveloperProfile with the posted
\* profile. The logging variant reads profile.repositories.length and
\* profile.languageStats first (route.ts:74-81), which throws on a profile
\* that lacks them.
PostProfile ==
  /\ entry \in {"stream", "library"} /\ pc = "start"
  /\ IF entry = "stream" /\ ~profile.given
     THEN /\ response' = [status |-> 400, body |-> "Developer profile is required"]
          /\ pc' = "done"
          /\ UNCHANGED run
     ELSE IF entry = "stream" /\ variant = "logging" /\ ~profile.wellFormed
     THEN /\ response' = [status |-> 400, body |-> "Invalid request format"]
          /\ pc' = "done"
          /\ UNCHANGED run
     ELSE /\ run' = "start"
          /\ pc' = IF entry = "stream" THEN "streaming" ELSE "analyzing"
          /\ response' = IF entry = "stream"
                         THEN [status |-> 200, body |-> "text/event-stream"]
                         ELSE response
  /\ UNCHANGED <<entry, chain, served, client, pairVars, input, output, variant, writer, username, profile, aggVars,
                 call, returned, thenPromise, promises, analysis, writes, updates, stream, raises>>

\* analyzeDeveloperProfile, part_002:341-363: the reserved handle
AnalyzeStart ==
  /\ run = "start"
  /\ IF ~profile.given
     THEN \* profile.user of null: a TypeError, caught at part_002:433
          /\ run' = "rejected"
          /\ UNCHANGED <<analysis, updates, stream, raises, chain>>
     ELSE IF ToLowerCase(profile.username) = ReservedName
     THEN /\ analysis' = [s \in Sections |-> Celebratory(s)]
          /\ IF HasCallback
             THEN \E raise \in MayRaise, k \in 1..Len(SectionOrder) :
                    /\ updates' = updates \o CelebratoryUpdates(IF raise THEN k ELSE 0)
                    /\ stream' = Relay(stream, CelebratoryUpdates(IF raise THEN k ELSE 0))
                    /\ chain' = WriteFailure(chain)
                    /\ run' = IF raise THEN "rejected" ELSE "resolved"
                    /\ raises' = IF raise THEN raises + 1 ELSE raises
             ELSE /\ run' = "resolved"
                  /\ UNCHANGED <<updates, stream, raises, chain>>
     ELSE /\ run' = "format"
          /\ UNCHANGED <<analysis, updates, stream, raises, chain>>
  /\ UNCHANGED <<entry, served, client, pairVars, input, output, variant, writer, username, profile, pc, response, aggVars,
                 call, returned, thenPromise, promises, writes>>

\* prepareProfileData, part_002:33-62 and its call at part_002:365
PrepareProfileData ==
  /\ run = "format"
  /\ run' = IF profile.wellFormed THEN "launch" ELSE "rejected"
  /\ UNCHANGED <<entry, chain, served, client, pairVars, input, output, variant, writer, username, profile, pc, response, aggVars,
                 call, returned, thenPromise, promises, analysis, writes, updates, stream, raises>>

LaunchSectionsInTurn ==
  /\ run = "launch"
  /\ analysis' = [s \in Sections |-> Initial(s)]
  /\ call' = [s \in Sections |-> IF s = SectionOrder[1] THEN "pending" ELSE "idle"]
  /\ run' = "awaiting"
  /\ UNCHANGED <<entry, chain, served, client, pairVars, input, output, variant, writer, username, profile, pc, response, aggVars,
                 returned, thenPromise, promises, writes, updates, stream, raises>>

\* part_002:368-377 and 392-430: the report is created, the five calls are
\* issued, the run awaits Promise.all
LaunchSections ==
  /\ run = "launch"
  /\ analysis' = [s \in Sections |-> Initial(s)]
  /\ call' = [s \in Sections |-> "pending"]
  /\ run' = "awaiting"
  /\ UNCHANGED <<entry, chain, served, client, pairVars, input, output, variant, writer, username, profile, pc, response, aggVars,
                 returned, thenPromise, promises, writes, updates, stream, raises>>

\* get<Section> after chat.completions.create settles: the call rejects, or
\* its content is parsed
CompletionResponse(s) ==
  /\ TaskReady /\ call[s] = "pending"
  /\ \E failed \in BOOLEAN, content \in Contents(s) :
       LET result == IF failed THEN Err("CompletionError") ELSE Analyzer(s, content)
       IN IF result.ok
          THEN /\ call' = [call EXCEPT ![s] = "fulfilled"]
               /\ returned' = [returned EXCEPT ![s] = result.value]
          ELSE /\ call' = [call EXCEPT ![s] = result.error]
               /\ UNCHANGED returned
  /\ UNCHANGED <<entry, chain, served, client, pairVars, input, output, variant, writer, username, profile, pc, response, aggVars,
                 run, thenPromise, promises, analysis, writes, updates, stream, raises>>

\* updateSection, part_002:380-389: the promise state its caller settles to
\* when onUpdate raises or not
Outcome(raise) == IF raise THEN "rejected" ELSE "fulfilled"

UpdateSectionUnassigned(s, data, raise) ==
  /\ writes' = [writes EXCEPT ![s] = @ + 1]
  /\ updates' = IF HasCallback THEN Append(updates, Update(s, data)) ELSE updates
  /\ stream' = Relay(stream, <<Update(s, data)>>)
  /\ chain' = WriteFailure(chain)
  /\ raises' = IF raise THEN raises + 1 ELSE raises
  /\ UNCHANGED analysis

UpdateSectionSilent(s, data, raise) ==
  /\ analysis' = [analysis EXCEPT ![s] = data]
  /\ writes' = [writes EXCEPT ![s] = @ + 1]
  /\ UNCHANGED <<updates, stream, raises, chain>>

\* updateSection, part_002:380-389
UpdateSection(s, data, raise) ==
  /\ analysis' = [analysis EXCEPT ![s] = data]
  /\ writes' = [writes EXCEPT ![s] = @ + 1]
  /\ updates' = IF HasCallback THEN Append(updates, Update(s, data)) ELSE updates
  /\ stream' = Relay(stream, <<Update(s, data)>>)
  /\ chain' = WriteFailure(chain)
  /\ raises' = IF raise THEN raises + 1 ELSE raises

\* the reaction of .then(data => updateSection(section, data)), part_002:394
ThenReaction(s) ==
  /\ call[s] \notin {"idle", "pending"} /\ thenPromise[s] = "pending"
  /\ IF call[s] = "fulfilled"
     THEN \E raise \in MayRaise :
            /\ UpdateSection(s, returned[s], raise)
            /\ thenPromise' = [thenPromise EXCEPT ![s] = Outcome(raise)]
     ELSE /\ thenPromise' = [thenPromise EXCEPT ![s] = "rejected"]
          /\ UNCHANGED <<analysis, writes, updates, stream, raises, chain>>
  /\ UNCHANGED <<entry, served, client, pairVars, input, output, variant, writer, username, profile, pc, response, aggVars,
                 run, call, returned, promises>>

CatchReactionAlways(s) ==
  /\ Settled(thenPromise[s]) /\ promises[s] = "pending"
  /\ UpdateSection(s, Fallback(s), FALSE)
  /\ promises' = [promises EXCEPT ![s] = "fulfilled"]
  /\ UNCHANGED <<entry, served, client, pairVars, input, output, variant, writer, username, profile, pc, response, aggVars,
                 run, call, returned, thenPromise>>

CatchReactionRetry(s) ==
  /\ Settled(thenPromise[s]) /\ promises[s] = "pending"
  /\ IF call[s] \in {"CompletionError", "ParseError"}
     THEN /\ call' = [call EXCEPT ![s] = "pending"]
          /\ thenPromise' = [thenPromise EXCEPT ![s] = "pending"]
          /\ UNCHANGED promises
     ELSE /\ promises' = [promises EXCEPT ![s] = "fulfilled"]
          /\ UNCHANGED <<call, thenPromise>>
  /\ UNCHANGED <<entry, chain, served, client, pairVars, input, output, variant, writer, username, profile, pc, response, aggVars,
                 run, returned, analysis, writes, updates, stream, raises>>

CatchReactionRethrow(s) ==
  /\ Settled(thenPromise[s]) /\ promises[s] = "pending"
  /\ promises' = [promises EXCEPT ![s] = thenPromise[s]]
  /\ UNCHANGED <<entry, chain, served, client, pairVars, input, output, variant, writer, username, profile, pc, response, aggVars,
                 run, call, returned, thenPromise, analysis, writes, updates, stream, raises>>

\* the reaction of .catch(error => {...updateSection(section, fallback)}),
\* part_002:395-398: it handles the rejection of the then-promise, whether
\* get<Section> rejected or the then-handler threw
CatchReaction(s) ==
  /\ Settled(thenPromise[s]) /\ promises[s] = "pending"
  /\ IF thenPromise[s] = "rejected"
     THEN \E raise \in MayRaise :
            /\ UpdateSection(s, Fallback(s), raise)
            /\ promises' = [promises EXCEPT ![s] = Outcome(raise)]
     ELSE /\ promises' = [promises EXCEPT ![s] = "fulfilled"]
          /\ UNCHANGED <<analysis, writes, updates, stream, raises, chain>>
  /\ UNCHANGED <<entry, served, client, pairVars, input, output, variant, writer, username, profile, pc, response, aggVars,
                 run, call, returned, thenPromise>>

\* await Promise.all(promises) settles, part_002:430-436: all fulfilled, the
\* report is returned; one rejected, the catch block rethrows
PromiseAll ==
  /\ run = "awaiting"
  /\ IF SomeRejected THEN run' = "rejected"
     ELSE AllFulfilled /\ run' = "resolved"
  /\ UNCHANGED <<entry, chain, served, client, pairVars, input, output, variant, writer, username, profile, pc, response, aggVars,
                 call, returned, thenPromise, promises, analysis, writes, updates, stream, raises>>

\* writer.close()
Close(w) == IF w = "open" THEN "closed" ELSE w

\* the terminal event of a settled run, route.ts:40 and 44
TerminalEvent == IF run = "resolved" THEN "complete" ELSE "error"

\* the then handler followed, when it rejects, by the catch handler, or the
\* catch handler alone, from the point where an awaited call on the writer
\* rejected: the catch handler of the plain variant writes the error event
\* (route.ts:44-45), that of the logging variant closes the writer
\* (route.ts:140); on the errored writer either call rejects, and the promise
\* .catch returned has no handler
AfterRejection(c, inThen) ==
  IF ~inThen THEN [c EXCEPT !.unhandled = TRUE]
  ELSE IF variant = "plain"
  THEN [c EXCEPT !.lateWrites = IF c.closes > 0 THEN @ + 1 ELSE @, !.unhandled = TRUE]
  ELSE [c EXCEPT !.closes = @ + 1, !.unhandled = TRUE]

\* the caller after analyzeDeveloperProfile settles: route.ts:183-193 for the
\* username route; for the stream route the then or catch handler up to its
\* first await: the plain variant writes the terminal event (route.ts:38-47),
\* the logging variant only closes the writer (route.ts:120-141)
Respond ==
  /\ pc \in {"analyzing", "streaming"} /\ run \in {"resolved", "rejected"}
  /\ IF entry = "stream" /\ variant = "plain"
     THEN /\ stream' = Write(stream, TerminalEvent)
          /\ pc' = IF writer = "open" THEN "closing" ELSE "done"
          /\ chain' = IF writer = "open" THEN chain
                      ELSE AfterRejection(chain, run = "resolved")
          /\ UNCHANGED writer
     ELSE /\ writer' = IF entry = "stream" THEN Close(writer) ELSE writer
          /\ chain' = IF entry # "stream" THEN chain
                      ELSE IF writer = "open" THEN [chain EXCEPT !.closes = @ + 1]
                      ELSE AfterRejection([chain EXCEPT !.closes = @ + 1], run = "resolved")
          /\ pc' = "done"
          /\ UNCHANGED stream
  /\ response' = IF entry = "username"
                 THEN IF run = "resolved" THEN [status |-> 200, body |-> "analysis"]
                      ELSE [status |-> 500, body |-> "Failed to analyze developer profile"]
                 ELSE response
  /\ UNCHANGED <<entry, served, client, pairVars, input, output, variant, username, profile, aggVars,
                 run, call, returned, thenPromise, promises, analysis, writes, updates, raises>>

\* the plain variant after its await writer.write(data): writer.close(),
\* route.ts:41 and 45. On an errored writer close rejects; in the then
\* handler that runs the catch handler, whose write rejects as well.
CloseStream ==
  /\ pc = "closing"
  /\ writer' = Close(writer)
  /\ chain' = IF writer = "open" THEN [chain EXCEPT !.closes = @ + 1]
              ELSE AfterRejection([chain EXCEPT !.closes = @ + 1], run = "resolved")
  /\ pc' = "done"
  /\ UNCHANGED <<entry, served, client, pairVars, input, output, variant, username, profile, response, aggVars, runVars>>

\* the client stops reading: cancelling stream.readable drops the chunks
\* still queued and errors the writable side of the TransformStream,
\* route.ts:17-18
ClientDisconnect ==
  /\ TaskReady
  /\ entry = "stream" /\ pc \in {"streaming", "closing"} /\ writer = "open"
  /\ writer' = "errored"
  /\ stream' = << >>
  /\ UNCHANGED <<entry, chain, served, client, pairVars, input, output, variant, username, profile, pc, response, aggVars,
                 run, call, returned, thenPromise, promises, analysis, writes, updates, raises>>

Next ==
  \/ PostUsername
  \/ UserResponse
  \/ UserRateInfo
  \/ ListResponse
  \/ \E i \in 1..Len(lookup) : LanguagesResponse(i)
  \/ \E i \in 1..Len(lookup) : ParentResponse(i)
  \/ \E i \in 1..Len(lookup) : CommitsResponse(i)
  \/ \E i \in 1..Len(lookup) : LookupRateInfo(i)
  \/ ReposJoin
  \/ ReposRateInfo
  \/ ProfileJoin
  \/ PostProfile
  \/ AnalyzeStart
  \/ PrepareProfileData
  \/ LaunchSections
  \/ \E s \in Sections : CompletionResponse(s)
  \/ \E s \in Sections : ThenReaction(s)
  \/ \E s \in Sections : CatchReaction(s)
  \/ PromiseAll
  \/ Respond
  \/ CloseStream
  \/ ClientDisconnect

Spec == Init /\ [][Next]_vars

\* the same program with analyzeDeveloperProfile also called with an
\* arbitrary onUpdate callback
InitAnyCallback == InitWith({"username", "stream", "library"})

SpecAnyCallback == InitAnyCallback /\ [][Next]_vars

\* the event loop runs every pending reaction; each completion call settles
Fairness ==
  /\ \A s \in Sections : WF_vars(CompletionResponse(s))
  /\ \A s \in Sections : WF_vars(ThenReaction(s))
  /\ \A s \in Sections : WF_vars(CatchReaction(s))
  /\ WF_vars(PromiseAll)

SpecLive == Spec /\ Fairness

(***************************************************************************)
(* The data functions of profile aggregation, applied on their own         *)
(***************************************************************************)

\* what getUserRepositories returns for a listing when every lookup
\* succeeds: part_003:364-367, then the final sort, part_003:419-426
ReturnedRepos(data) == StableSort(FilteredRepos(data), OwnedFirst)

OwnedNotArchived(r) == ~r.fork /\ ~r.archived

\* slice(0, 5), part_003:154
MaxRepositoriesSimple == 5

\* the simple variant of getUserRepositories, part_003:152-154
SimpleRepos(data) ==
  LET kept == SelectSeq(data, OwnedNotArchived)
  IN SubSeq(kept, 1, IF Len(kept) < MaxRepositoriesSimple THEN Len(kept)
                     ELSE MaxRepositoriesSimple)

\* const languageStats = {}
NoStats == [L \in {} |-> 0]

\* languageStats[language] = (languageStats[language] || 0) + bytes
AddBytes(stats, language, bytes) ==
  [K \in DOMAIN stats \cup {language} |->
     IF K = language
     THEN (IF language \in DOMAIN stats THEN stats[language] ELSE 0) + bytes
     ELSE stats[K]]

\* Object.entries(repo.languages).forEach(...), over the keys not yet visited
RECURSIVE AddEntries(_, _, _)
AddEntries(stats, languages, keys) ==
  IF keys = {} THEN stats
  ELSE LET k == CHOOSE k \in keys : TRUE
       IN AddEntries(AddBytes(stats, k, languages[k]), languages, keys \ {k})

\* getDeveloperProfile, part_003:318-323: repositories.forEach over the
\* first n repositories
RECURSIVE LanguageStats(_, _)
LanguageStats(repositories, n) ==
  IF n = 0 THEN NoStats
  ELSE AddEntries(LanguageStats(repositories, n - 1),
                  repositories[n].languages, DOMAIN repositories[n].languages)

\* submitProfile, page.tsx:387-392: one is added for the primary language
\* of each repository that has one
RECURSIVE SubmittedStats(_, _)
SubmittedStats(repositories, n) ==
  IF n = 0 THEN NoStats
  ELSE LET stats == SubmittedStats(repositories, n - 1)
       IN IF repositories[n].language # "none"
          THEN AddBytes(stats, repositories[n].language, 1)
          ELSE stats

\* per_page of repos.listCommits, part_003:339
PerPage == 100

ListAllCommits(authored) == authored

\* commits.length: the data source answers with one page of at most
\* per_page commits of the author
ListCommits(authored) == IF authored < PerPage THEN authored ELSE PerPage

\* checkForkContributions when repos.listCommits succeeds, part_003:332-345
CheckForkContributions(authored) ==
  [hasContributions |-> ListCommits(authored) > 0, count |-> ListCommits(authored)]

\* let contributionData = { hasContributions: false, count: 0 }, part_003:374
NoContributions == [hasContributions |-> FALSE, count |-> 0]

\* the record the map function returns when its lookups succeed,
\* part_003:374-414, as far as the fork fields go. A key whose value is
\* undefined is left out of the record.
RepositoryRecord(found) ==
  LET enriched == found.fork /\ found.hasParent
      contributionData == IF enriched THEN CheckForkContributions(found.authored)
                          ELSE NoContributions
  IN IF enriched
     THEN [isFork |-> found.fork,
           parentRepository |-> "parent",
           hasContributions |-> contributionData.hasContributions,
           contributionsCount |-> contributionData.count]
     ELSE [isFork |-> found.fork,
           hasContributions |-> contributionData.hasContributions,
           contributionsCount |-> contributionData.count]

serverVars ==
  <<entry, username, profile, pc, response, aggVars, runVars, transportVars, pairVars, served, chain>>
mainVars == <<serverVars, client>>

InitData ==
  /\ entry = "data"
  /\ username = "" /\ profile = NoProfile
  /\ pc = "start"
  /\ response = NoResponse
  /\ userCall = Idle
  /\ listCall = Idle
  /\ repos = << >>
  /\ lookup = << >>
  /\ reposPromise = Idle
  /\ profilePromise = Idle
  /\ rateInfo = "none"
  /\ run = "idle"
  /\ call = [s \in Sections |-> "idle"]
  /\ returned = [s \in Sections |-> Initial(s)]
  /\ thenPromise = [s \in Sections |-> "pending"]
  /\ promises = [s \in Sections |-> "pending"]
  /\ analysis = [s \in Sections |-> Initial(s)]
  /\ writes = [s \in Sections |-> 0]
  /\ updates = << >>
  /\ raises = 0
  /\ variant = "none"
  /\ stream = << >>
  /\ writer = "open"
  /\ \/ \E data \in ShortListings \cup LongListings :
          input = [kind |-> "listing", data |-> data]
     \/ \E repositories \in RepoLists :
          input = [kind |-> "repositories", data |-> repositories]
     \/ \E found \in ForkLookups :
          input = [kind |-> "lookups", data |-> found]
  /\ output = Nothing
  /\ PairIdle
  /\ client = ClientIdle
  /\ served = << >>
  /\ chain = NoChain

\* getUserRepositories of the richest variant on a listing
GetUserRepositories ==
  /\ input.kind = "listing" /\ output = Nothing
  /\ output' = [kind |-> "repositories", value |-> ReturnedRepos(input.data)]
  /\ UNCHANGED <<mainVars, input>>

\* getUserRepositories of the simple variant on a listing
GetUserRepositoriesSimple ==
  /\ input.kind = "listing" /\ output = Nothing
  /\ output' = [kind |-> "simple", value |-> SimpleRepos(input.data)]
  /\ UNCHANGED <<mainVars, input>>

\* the languageStats of getDeveloperProfile, part_003:318-329
GetDeveloperProfile ==
  /\ input.kind = "repositories" /\ output = Nothing
  /\ output' = [kind |-> "profile", languageStats |-> LanguageStats(input.data, Len(input.data))]
  /\ UNCHANGED <<mainVars, input>>

\* the languageStats of submitProfile, page.tsx:386-399
SubmitProfile ==
  /\ input.kind = "repositories" /\ output = Nothing
  /\ output' = [kind |-> "submitted", languageStats |-> SubmittedStats(input.data, Len(input.data))]
  /\ UNCHANGED <<mainVars, input>>

\* the map function of getUserRepositories on one repository, part_003:371-415
MapRepository ==
  /\ input.kind = "lookups" /\ output = Nothing
  /\ output' = [kind |-> "record", value |-> RepositoryRecord(input.data)]
  /\ UNCHANGED <<mainVars, input>>

NextData ==
  \/ GetUserRepositories
  \/ GetUserRepositoriesSimple
  \/ GetDeveloperProfile
  \/ SubmitProfile
  \/ MapRepository

SpecData == InitData /\ [][NextData]_vars

(***************************************************************************)
(* The section analyzers and the formatter, applied on their own           *)
(***************************************************************************)

\* the main program is idle while a function is applied on its own
MainIdle ==
  /\ username = "" /\ profile = NoProfile
  /\ pc = "start"
  /\ response = NoResponse
  /\ userCall = Idle
  /\ listCall = Idle
  /\ repos = << >>
  /\ lookup = << >>
  /\ reposPromise = Idle
  /\ profilePromise = Idle
  /\ rateInfo = "none"
  /\ run = "idle"
  /\ call = [s \in Sections |-> "idle"]
  /\ returned = [s \in Sections |-> Initial(s)]
  /\ thenPromise = [s \in Sections |-> "pending"]
  /\ promises = [s \in Sections |-> "pending"]
  /\ analysis = [s \in Sections |-> Initial(s)]
  /\ writes = [s \in Sections |-> 0]
  /\ updates = << >>
  /\ raises = 0
  /\ variant = "none"
  /\ stream = << >>
  /\ writer = "open"

\* what the chain get<Section>(...).then(...).catch(...) assigns to the slot
\* last when onUpdate does not raise, part_002:392-427
SettledSlot(section, result) == IF result.ok THEN result.value ELSE Fallback(section)

\* Object.values(map).reduce((a, b) => a + b, 0), over the first n values
RECURSIVE SumEntries(_, _)
SumEntries(entries, n) ==
  IF n = 0 THEN 0 ELSE SumEntries(entries, n - 1) + entries[n].bytes

\* ((bytes / total) * 100).toFixed(1), in tenths of a percent; a division
\* by zero gives NaN or Infinity, it does not throw
Percent(bytes, total) ==
  IF total = 0
  THEN [finite |-> FALSE, text |-> IF bytes = 0 THEN "NaN" ELSE "Infinity"]
  ELSE [finite |-> TRUE, tenths |-> (2000 * bytes + total) \div (2 * total)]

\* entries.map(([lang, bytes]) => `${lang}: ${percent}%`), before the join
PercentEntries(entries, total) ==
  [i \in 1..Len(entries) |->
     [lang |-> entries[i].lang, percent |-> Percent(entries[i].bytes, total)]]

Sentinel == "Language statistics not available"

LanguagePercentagesUnguarded(languageStats) ==
  [text |-> "entries",
   entries |-> PercentEntries(languageStats, SumEntries(languageStats, Len(languageStats)))]

\* languagePercentages, part_002:34-39
LanguagePercentages(languageStats) ==
  LET totalBytes == SumEntries(languageStats, Len(languageStats))
  IN IF totalBytes > 0
     THEN [text |-> "entries", entries |-> PercentEntries(languageStats, totalBytes)]
     ELSE [text |-> Sentinel, entries |-> << >>]

\* the Main Language and Languages lines of one repository, part_002:43-53
RepoSummary(repo) ==
  LET main == IF repo.language # "none" THEN repo.language ELSE "Not specified"
  IN [mainLanguage |-> main,
      languages |->
        IF Len(repo.languages) > 0
        THEN [text |-> "entries",
              entries |-> PercentEntries(repo.languages,
                                         SumEntries(repo.languages, Len(repo.languages)))]
        ELSE [text |-> main, entries |-> << >>]]

\* what prepareProfileData returns, part_002:33-62
Prepared(p) ==
  [languagePercentages |-> LanguagePercentages(p.languageStats),
   repoSummaries |-> [i \in 1..Len(p.repositories) |-> RepoSummary(p.repositories[i])]]

ProfileReordered(p) ==
  [languageStats |-> [i \in 1..Len(p.languageStats) |->
                        p.languageStats[Len(p.languageStats) + 1 - i]],
   repositories |-> p.repositories]

\* the profile after prepareProfileData has run: map, join, reduce,
\* Object.entries and Object.values build new arrays and strings, and no
\* statement of part_002:33-62 assigns to the profile or a member of it
ProfileAfter(p) == p

InitText ==
  /\ entry = "text"
  /\ MainIdle
  /\ \/ \E section \in Sections :
          \E content \in Texts(section) :
            input = [kind |-> "completion", section |-> section, data |-> content]
     \/ \E p \in FormatProfiles : input = [kind |-> "profile", data |-> p]
  /\ output = Nothing
  /\ PairIdle
  /\ client = ClientIdle
  /\ served = << >>
  /\ chain = NoChain

\* one of the five analyzers of the richest variant on a completion text,
\* and the slot its chain settles
GetSection ==
  /\ input.kind = "completion" /\ output = Nothing
  /\ LET result == Analyzer(input.section, input.data)
     IN output' = [kind |-> "slot", of |-> "richest", result |-> result,
                   value |-> SettledSlot(input.section, result)]
  /\ UNCHANGED <<mainVars, input>>

\* getProfileRating of the simple variant on a completion text
GetProfileRatingSimple ==
  /\ input.kind = "completion" /\ input.section = "profileRating" /\ output = Nothing
  /\ LET result == RatingAnalyzerSimple(input.data)
     IN output' = [kind |-> "slot", of |-> "simple", result |-> result,
                   value |-> SettledSlot(input.section, result)]
  /\ UNCHANGED <<mainVars, input>>

\* prepareProfileData called on a profile, part_002:365
FormatProfile ==
  /\ input.kind = "profile" /\ output = Nothing
  /\ output' = [kind |-> "prepared", calls |-> 1, first |-> Prepared(input.data)]
  /\ input' = [input EXCEPT !.data = ProfileAfter(input.data)]
  /\ UNCHANGED mainVars

\* prepareProfileData called once more on the same profile object
FormatAgain ==
  /\ output.kind = "prepared" /\ output.calls = 1
  /\ output' = [kind |-> "prepared", calls |-> 2, first |-> output.first,
                second |-> Prepared(input.data)]
  /\ input' = [input EXCEPT !.data = ProfileAfter(input.data)]
  /\ UNCHANGED mainVars

NextText ==
  \/ GetSection
  \/ GetProfileRatingSimple
  \/ FormatProfile
  \/ FormatAgain

SpecText == InitText /\ [][NextText]_vars

(***************************************************************************)
(* Two requests served at the same time                                    *)
(***************************************************************************)

ReportShared(r) == 1

\* the object created by 'const analysis = {...}' in the invocation of
\* analyzeDeveloperProfile for request r, part_002:368-377: a new object in
\* each invocation
ReportOf(r) == r

\* the value a chain of request r hands to updateSection for a section: the
\* data its own call resolved to, or the fallback of its own catch handler
OwnData(r, s) == [by |-> r, section |-> s]

InitPair ==
  /\ entry = "pair"
  /\ MainIdle
  /\ input = Nothing /\ output = Nothing
  /\ PairIdle
  /\ client = ClientIdle
  /\ served = << >>
  /\ chain = NoChain

\* POST of the stream route for request r and analyzeDeveloperProfile up to
\* its await, route.ts:16-37 and part_002:365-430: the service, the stream
\* and the report are created, the five calls are issued
StartRun(r) ==
  /\ runs[r].analysis = 0
  /\ runs' = [runs EXCEPT ![r] = [analysis |-> ReportOf(r),
                                   calls |-> [s \in Sections |-> "pending"]]]
  /\ reports' = [reports EXCEPT ![ReportOf(r)] = [s \in Sections |-> [by |-> 0, section |-> s]]]
  /\ UNCHANGED <<entry, username, profile, pc, response, aggVars, runVars, transportVars,
                 dataVars, streams, client, served, chain>>

\* a section call of request r settles and its chain runs: updateSection of
\* that invocation assigns the slot of its report and invokes its callback,
\* which writes to its stream, part_002:380-389 and route.ts:31-37
SettleSection(r, s) ==
  /\ runs[r].calls[s] = "pending"
  /\ runs' = [runs EXCEPT ![r].calls[s] = "settled"]
  /\ reports' = [reports EXCEPT ![runs[r].analysis][s] = OwnData(r, s)]
  /\ streams' = [streams EXCEPT ![r] = @ \cup {OwnData(r, s)}]
  /\ UNCHANGED <<entry, username, profile, pc, response, aggVars, runVars, transportVars,
                 dataVars, client, served, chain>>

NextPair ==
  \/ \E r \in Requests : StartRun(r)
  \/ \E r \in Requests, s \in Sections : SettleSection(r, s)

SpecPair == InitPair /\ [][NextPair]_vars

(***************************************************************************)
(* The page: handleSubmit and renderError, src/app/page.tsx:14-100         *)
(***************************************************************************)

\* the delay of the timer, page.tsx:20 (milliseconds)
TIMEOUT_DURATION == 40000

\* the step of the clock and the time a request is followed for
Tick == 10000
MaxElapsed == 60000

\* the longest username typed into the form
MaxName == 2

\* what the user typed: letters and hyphens
TypedNames == SeqsUpTo({"a", "-"}, MaxName)

\* usernamePattern.test, page.tsx:26-27: a letter or digit first, then up to
\* 38 more characters, each a letter or digit or a hyphen that is followed
\* by a letter or digit
UsernamePattern(name) ==
  /\ Len(name) >= 1 /\ Len(name) <= 39
  /\ name[1] # "-"
  /\ \A i \in 2..Len(name) :
       name[i] = "-" => (i < Len(name) /\ name[i + 1] # "-")

TimeoutMessage == "The request is taking longer than usual due to high traffic."

\* what fetch resolves with: the answers of the username route (a report; an
\* error body with a message), an error body without a message, and a body
\* that is not JSON
ServerResponses ==
  { [ok |-> TRUE, json |-> TRUE, error |-> "none"] }
    \cup { [ok |-> FALSE, json |-> TRUE, error |-> e] :
             e \in {"RateLimitHour", "NotFound", "Failed to analyze developer profile", ""} }
    \cup { [ok |-> b, json |-> FALSE, error |-> "none"] : b \in BOOLEAN }

InitClient ==
  /\ entry = "page"
  /\ MainIdle
  /\ input = Nothing /\ output = Nothing
  /\ PairIdle
  /\ \E name \in TypedNames : client = [ClientIdle EXCEPT !.username = name]
  /\ served = << >>
  /\ chain = NoChain

InnerCatchRethrow(err) == err

\* the inner catch, page.tsx:60-69: an AbortError is replaced by the error
\* with the timeout message, any other error is thrown again
InnerCatch(err) ==
  IF err.name = "AbortError" THEN [name |-> "Error", message |-> TimeoutMessage]
  ELSE err

\* the outer catch and the finally block, page.tsx:70-74
OuterCatch(err) ==
  [client EXCEPT !.error = IF err.message = "" THEN "An unexpected error occurred"
                           ELSE err.message,
                 !.loading = FALSE,
                 !.at = "done"]

\* error.toLowerCase().includes(...), page.tsx:80-81, on the messages of the
\* model
IsRateLimitMessage(error) == error \in {"RateLimitHour", "RateLimitMinutes", "RateLimit403"}
IsTimeoutMessage(error) == error = TimeoutMessage

\* the title renderError shows, page.tsx:82-88
Title(error) ==
  IF IsRateLimitMessage(error) THEN "Rate Limit Exceeded"
  ELSE IF IsTimeoutMessage(error) THEN "Request Timeout"
  ELSE "Error"

\* handleSubmit up to its await of fetch, page.tsx:22-49
HandleSubmit ==
  /\ client.at = "idle"
  /\ client' = IF ~UsernamePattern(client.username)
               THEN [client EXCEPT !.error = "Please enter a valid GitHub username",
                                   !.at = "returned"]
               ELSE [client EXCEPT !.loading = TRUE, !.error = "none", !.data = "none",
                                   !.timer = "armed", !.request = "inflight",
                                   !.at = "fetching"]
  /\ UNCHANGED <<serverVars, dataVars>>

\* time passes while the request or its timer is pending
Elapse ==
  /\ client.at \in {"fetching", "reading"} \/ client.timer = "armed"
  /\ client.elapsed + Tick <= MaxElapsed
  /\ client' = [client EXCEPT !.elapsed = @ + Tick]
  /\ UNCHANGED <<serverVars, dataVars>>

\* the response arrives: fetch fulfils and the timer is cleared,
\* page.tsx:42-51
FetchFulfilled ==
  /\ client.at = "fetching" /\ client.request = "inflight"
  /\ \E r \in ServerResponses :
       client' = [client EXCEPT !.request = "responded", !.response = r,
                                !.timer = "cleared", !.at = "reading"]
  /\ UNCHANGED <<serverVars, dataVars>>

\* the network fails: fetch rejects with a TypeError, which both catch
\* blocks handle; the timer stays armed
FetchRejected ==
  /\ client.at = "fetching" /\ client.request = "inflight"
  /\ client' = [OuterCatch(InnerCatch([name |-> "TypeError", message |-> "Failed to fetch"]))
                  EXCEPT !.request = "failed"]
  /\ UNCHANGED <<serverVars, dataVars>>

\* the callback of setTimeout, page.tsx:39: controller.abort() aborts the
\* request if it is in flight
TimerExpires ==
  /\ client.timer = "armed"
  /\ client.elapsed >= TIMEOUT_DURATION
  /\ client' = [client EXCEPT !.timer = "fired",
                              !.request = IF @ = "inflight" THEN "aborted" ELSE @]
  /\ UNCHANGED <<serverVars, dataVars>>

\* fetch rejects with the AbortError of the aborted request
AbortRejected ==
  /\ client.at = "fetching" /\ client.request = "aborted"
  /\ client' = OuterCatch(InnerCatch([name |-> "AbortError",
                                       message |-> "The user aborted a request."]))
  /\ UNCHANGED <<serverVars, dataVars>>

\* response.json() settles and handleSubmit runs to its end, page.tsx:53-74
JsonSettled ==
  /\ client.at = "reading"
  /\ client' =
       IF ~client.response.json
       THEN OuterCatch(InnerCatch([name |-> "SyntaxError", message |-> "Unexpected token"]))
       ELSE IF ~client.response.ok
       THEN OuterCatch(InnerCatch([name |-> "Error", message |-> client.response.error]))
       ELSE [client EXCEPT !.data = "analysis", !.loading = FALSE, !.at = "done"]
  /\ UNCHANGED <<serverVars, dataVars>>

NextClient ==
  \/ HandleSubmit
  \/ Elapse
  \/ FetchFulfilled
  \/ FetchRejected
  \/ TimerExpires
  \/ AbortRejected
  \/ JsonSettled

SpecClient == InitClient /\ [][NextClient]_vars

\* the runtime runs a due timer and the reactions of a settled call, and the
\* body of a response whose head has arrived is delivered
FairnessClient ==
  /\ WF_vars(Elapse)
  /\ WF_vars(TimerExpires)
  /\ WF_vars(AbortRejected)
  /\ WF_vars(JsonSettled)

SpecClientLive == SpecClient /\ FairnessClient


(***************************************************************************)
(* The username route serving one request after another                    *)
(***************************************************************************)

\* the number of requests followed
MaxRequests == 2

InitRepeat == InitWith({"username"})

\* the handle the answered request generated a report for
Generated == IF response.status = 200 THEN username ELSE ""

\* the next POST of the username route arrives, route.ts:162-166: the
\* handler starts from its body alone, with a new GithubService and a new
\* OpenAIService (173-174); nothing of the earlier requests is read
NextRequest ==
  /\ entry = "username" /\ pc = "done"
  /\ Len(served) + 1 < MaxRequests
  /\ served' = Append(served, Generated)
  /\ username' \in Usernames \cup {""}
  /\ pc' = "start"
  /\ response' = NoResponse
  /\ userCall' = Idle
  /\ listCall' = Idle
  /\ repos' = << >>
  /\ lookup' = << >>
  /\ reposPromise' = Idle
  /\ profilePromise' = Idle
  /\ rateInfo' = "none"
  /\ run' = "idle"
  /\ call' = [s \in Sections |-> "idle"]
  /\ returned' = [s \in Sections |-> Initial(s)]
  /\ thenPromise' = [s \in Sections |-> "pending"]
  /\ promises' = [s \in Sections |-> "pending"]
  /\ analysis' = [s \in Sections |-> Initial(s)]
  /\ writes' = [s \in Sections |-> 0]
  /\ updates' = << >>
  /\ raises' = 0
  /\ UNCHANGED <<entry, profile, stream, transportVars, dataVars, pairVars, client, chain>>

NextRepeat ==
  \/ PostUsername
  \/ UserResponse
  \/ UserRateInfo
  \/ ListResponse
  \/ \E i \in 1..Len(lookup) : LanguagesResponse(i)
  \/ \E i \in 1..Len(lookup) : ParentResponse(i)
  \/ \E i \in 1..Len(lookup) : CommitsResponse(i)
  \/ \E i \in 1..Len(lookup) : LookupRateInfo(i)
  \/ ReposJoin
  \/ ReposRateInfo
  \/ ProfileJoin
  \/ AnalyzeStart
  \/ PrepareProfileData
  \/ LaunchSections
  \/ \E s \in Sections : CompletionResponse(s)
  \/ \E s \in Sections : ThenReaction(s)
  \/ \E s \in Sections : CatchReaction(s)
  \/ PromiseAll
  \/ Respond
  \/ NextRequest

SpecRepeat == InitRepeat /\ [][NextRepeat]_vars

(***************************************************************************)
(* The endpoints that take a username                                      *)
(***************************************************************************)

InitEndpoints == InitWith({"username", "user"})

\* POST of the user route up to its await, src/app/api/github/user/route.ts:4-18
PostUser ==
  /\ entry = "user" /\ pc = "start"
  /\ IF username = ""
     THEN /\ response' = [status |-> 400, body |-> "GitHub username is required"]
          /\ pc' = "done"
          /\ UNCHANGED userCall
     ELSE /\ userCall' = InFlight
          /\ pc' = "fetching"
          /\ UNCHANGED response
  /\ UNCHANGED <<entry, username, profile, listCall, repos, lookup, reposPromise, profilePromise,
                 rateInfo, runVars, transportVars, dataVars, pairVars, client, served, chain>>

\* the user route after getUserProfile settles, user/route.ts:18-46
UserRouteRespond ==
  /\ entry = "user" /\ pc = "fetching"
  /\ userCall.at \in {"ok", "rejected"}
  /\ response' = IF userCall.at = "ok" THEN [status |-> 200, body |-> "user"]
                 ELSE [status |-> ErrorStatus(userCall.error), body |-> userCall.error]
  /\ pc' = "done"
  /\ UNCHANGED <<entry, username, profile, aggVars, runVars, transportVars, dataVars, pairVars,
                 client, served, chain>>

NextEndpoints ==
  \/ PostUsername
  \/ PostUser
  \/ UserResponse
  \/ UserRateInfo
  \/ UserRouteRespond
  \/ ListResponse
  \/ \E i \in 1..Len(lookup) : LanguagesResponse(i)
  \/ \E i \in 1..Len(lookup) : ParentResponse(i)
  \/ \E i \in 1..Len(lookup) : CommitsResponse(i)
  \/ \E i \in 1..Len(lookup) : LookupRateInfo(i)
  \/ ReposJoin
  \/ ReposRateInfo
  \/ ProfileJoin
  \/ AnalyzeStart
  \/ PrepareProfileData
  \/ LaunchSections
  \/ \E s \in Sections : CompletionResponse(s)
  \/ \E s \in Sections : ThenReaction(s)
  \/ \E s \in Sections : CatchReaction(s)
  \/ PromiseAll
  \/ Respond

SpecEndpoints == InitEndpoints /\ [][NextEndpoints]_vars

(***************************************************************************)
(* Properties                                                              *)
(***************************************************************************)

\* the five section calls have been issued
Launched == \A s \in Sections : call[s] # "idle"

CallSettled(s) == call[s] \notin {"idle", "pending"}
CallFailed(s) == call[s] \in {"CompletionError", "ParseError"}

\* a slot of a launched run that updateSection has not assigned yet
SlotPending(s) == call[s] # "idle" /\ writes[s] = 0

\* what the slot of a section is meant to settle to, given its own call
OwnValue(s) == IF call[s] = "fulfilled" THEN returned[s] ELSE Fallback(s)

\* how often onUpdate was invoked for a section
Count(s) == Cardinality({ i \in 1..Len(updates) : updates[i].section = s })

Reported(s) == Count(s) > 0

\* C1: every slot is assigned at most once, and once assigned it holds the
\* success value of its own call or its fallback, whatever onUpdate does.
C1_WrittenOnce ==
  \A s \in Sections :
    /\ writes[s] <= 1
    /\ writes[s] = 1 => analysis[s] = OwnValue(s)

\* with a failed section call the run is not rejected, every other section
\* is launched and, once its chain is through, holds the value of its own call
C2_Isolated ==
  \A s \in Sections : CallFailed(s) =>
    /\ run # "rejected"
    /\ \A t \in Sections \ {s} :
         /\ call[t] # "idle"
         /\ promises[t] = "fulfilled" => analysis[t] = OwnValue(t)

\* the step in which a call fails, or its fallback is written, leaves the
\* call, the slot and the chain of every other section as they were
C2_FailureStep ==
  \A s \in Sections :
    (CallFailed(s)' /\ (call'[s] # call[s] \/ promises'[s] # promises[s])) =>
      \A t \in Sections \ {s} :
        /\ call'[t] = call[t]
        /\ analysis'[t] = analysis[t]
        /\ promises'[t] = promises[t]

C3_AwaitAll ==
  run = "resolved" => \A s \in Sections : call[s] # "pending" /\ ~SlotPending(s)

C3_Witness == run = "resolved" /\ Launched /\ \E s \in Sections : CallFailed(s)

\* C4: once the five calls are issued the run never rejects, whatever the
\* section calls and onUpdate do.
C4_NeverRejects == Launched => run # "rejected"

C6_TerminalValues ==
  (run = "resolved" /\ Launched) =>
    \A s \in Sections : analysis[s] = OwnValue(s) /\ analysis[s] # Initial(s)

\* C7: the five calls are issued together, and onUpdate follows the order
\* in which they settle: an update is only for a settled call, and at most
\* one settled call is not yet reported when the next one settles.
C7_ArrivalOrder ==
  /\ \A s, t \in Sections : call[s] # "idle" => call[t] # "idle"
  /\ (HasCallback /\ Launched) =>
       /\ \A s \in Sections : Reported(s) => CallSettled(s)
       /\ \A s, t \in Sections :
            (CallSettled(s) /\ ~Reported(s) /\ CallSettled(t) /\ ~Reported(t)) => s = t

\* onUpdate fired in the reverse of the declaration order
C7_Witness ==
  /\ Launched /\ Len(updates) = Len(SectionOrder)
  /\ \A i \in 1..Len(SectionOrder) :
       updates[i].section = SectionOrder[Len(SectionOrder) + 1 - i]

C9_CausalOrder ==
  /\ (\E s \in Sections : call[s] # "idle") =>
       (profile.wellFormed /\ run \in {"awaiting", "resolved", "rejected"})
  /\ (entry = "username" /\ run # "idle") =>
       /\ userCall.at = "ok" /\ listCall.at = "ok"
       /\ reposPromise.at = "fulfilled"
       /\ LookupsDone

C9_Witness ==
  /\ entry = "username" /\ Launched
  /\ Len(lookup) = MaxRepos
  /\ \E i \in 1..Len(repos) : repos[i].fork

\* did a call of the aggregation fail so that getDeveloperProfile rejects
AggregationFailed == userCall.at = "rejected" \/ reposPromise.at = "rejected"

\* C10: when aggregation fails no section call is ever issued and no report
\* is returned: analyzeDeveloperProfile is never entered and the response
\* carries the error of the aggregation.
C10_AbortBeforeAnalysis ==
  /\ AggregationFailed =>
       /\ run = "idle"
       /\ \A s \in Sections : call[s] = "idle"
       /\ response.status # 200
  /\ profilePromise.at = "rejected" =>
       /\ pc = "done"
       /\ response.body = profilePromise.error
       /\ response.status \in {429, 500}

C10_Witness ==
  /\ profilePromise.at = "rejected"
  /\ profilePromise.error = "NotFound"
  /\ response.status = 500

\* C11: a run of analyzeDeveloperProfile that rejects has issued no section
\* call and has never invoked onUpdate.
C11_FailsBeforeLaunch ==
  run = "rejected" => (\A s \in Sections : call[s] = "idle") /\ updates = << >>

\* the run is on the path of the reserved handle
ReservedRun ==
  profile.given /\ profile.username \in {"torvalds", "Torvalds"} /\ run \notin {"idle", "start"}

TerminalEvents == {"complete", "error"}

IsSectionEvent(e) == e \in Sections

\* the section named by each onUpdate invocation, in order
UpdateOrder == [i \in 1..Len(updates) |-> updates[i].section]

\* C13: a closed event stream holds exactly one terminal event, as its last
\* event: "complete" when the run resolved, "error" when it rejected.
C13_TerminalEvent ==
  (entry = "stream" /\ writer = "closed") =>
    /\ Cardinality({ i \in 1..Len(stream) : stream[i] \in TerminalEvents }) = 1
    /\ stream[Len(stream)] = (IF run = "resolved" THEN "complete" ELSE "error")

\* the section events on an intact stream are the onUpdate invocations in
\* their order, and a terminal event is the last event of the stream
C14_Relayed ==
  (entry = "stream" /\ writer # "errored") =>
    /\ SelectSeq(stream, IsSectionEvent) = UpdateOrder
    /\ \A i \in 1..Len(stream) : stream[i] \in TerminalEvents => i = Len(stream)

\* nothing is enqueued once the terminal event is on the stream or the
\* writer is closed
C14_NothingAfterEnd ==
  (writer = "closed" \/ (stream # << >> /\ stream[Len(stream)] \in TerminalEvents)) =>
    Len(stream') <= Len(stream)

\* a closed stream of a resolved run carries five section events and then
\* the terminal event
C14_Complete ==
  (entry = "stream" /\ writer = "closed" /\ run = "resolved") =>
    /\ Len(stream) = Cardinality(Sections) + 1
    /\ { stream[i] : i \in 1..Cardinality(Sections) } = Sections
    /\ stream[Len(stream)] = "complete"

\* C14: the stream carries the section events in the order of the onUpdate
\* invocations, all of them before the terminal event; nothing is written
\* after the terminal event or after the close; a closed stream of a
\* resolved run is five section events followed by the terminal event.
C14_RelayOrder ==
  [](C14_Relayed /\ C14_Complete) /\ [][C14_NothingAfterEnd]_vars

\* the byte count of a language in one repository (0 when it has none)
BytesOf(r, L) == IF L \in DOMAIN r.languages THEN r.languages[L] ELSE 0

\* the sum of the byte counts of a language over the first n repositories
RECURSIVE SumBytes(_, _, _)
SumBytes(repositories, L, n) ==
  IF n = 0 THEN 0 ELSE SumBytes(repositories, L, n - 1) + BytesOf(repositories[n], L)

\* a key of languageStats read with 0 for a missing key
StatOf(stats, L) == IF L \in DOMAIN stats THEN stats[L] ELSE 0

\* C15: the languageStats of every profile built for the orchestrator equal,
\* for every language, the sum of the repositories' byte counts; the last
\* repository raises its languages by its own bytes and leaves the others.
C15_LanguageStats ==
  output.kind \in {"profile", "submitted"} =>
    LET repositories == input.data
        n == Len(repositories)
    IN /\ \A L \in Languages :
            StatOf(output.languageStats, L) = SumBytes(repositories, L, n)
       /\ n > 0 =>
            \A L \in Languages :
              StatOf(output.languageStats, L)
                = SumBytes(repositories, L, n - 1) + BytesOf(repositories[n], L)

\* the sequence is ordered: no fork before a repository of the user's own,
\* more stars first within each group, discovery order among equal stars
Ordered(r) ==
  \A i, j \in 1..Len(r) : i < j =>
    /\ ~(r[i].fork /\ ~r[j].fork)
    /\ r[i].fork = r[j].fork =>
         /\ r[i].stars >= r[j].stars
         /\ r[i].stars = r[j].stars => r[i].id < r[j].id

\* C16: whatever getUserRepositories returns is ordered: non-forks before
\* forks, descending stars within each group, ties in discovery order.
C16_SortedOrder ==
  output.kind \in {"repositories", "simple"} => Ordered(output.value)

\* the ranking of the selection policy: the non-archived repositories,
\* non-forks above forks, descending stars within each group
Ranked(data) == StableSort(SelectSeq(data, NotArchived), OwnedFirst)

\* C17: the returned list is the first 15 entries of the ranked
\* non-archived repositories; no non-fork is left out while a fork is kept.
C17_SelectionPolicy ==
  output.kind = "repositories" =>
    LET ranked == Ranked(input.data)
        kept == { output.value[i].id : i \in 1..Len(output.value) }
    IN /\ output.value = SubSeq(ranked, 1, IF Len(ranked) < 15 THEN Len(ranked) ELSE 15)
       /\ \A i, j \in 1..Len(input.data) :
            (/\ ~input.data[i].archived /\ ~input.data[i].fork
             /\ input.data[j].fork /\ input.data[j].id \in kept)
              => input.data[i].id \in kept

\* C18: the returned list holds at most 15 repositories (5 in the simple
\* variant), none of them archived.
C18_BoundedNoArchived ==
  /\ output.kind = "repositories" =>
       /\ Len(output.value) <= 15
       /\ \A i \in 1..Len(output.value) : ~output.value[i].archived
  /\ output.kind = "simple" =>
       /\ Len(output.value) <= 5
       /\ \A i \in 1..Len(output.value) : ~output.value[i].archived

C18_Witness ==
  /\ output.kind = "repositories"
  /\ Len(output.value) = 15
  /\ Len(SelectSeq(input.data, NotArchived)) > 15
  /\ \E i \in 1..Len(input.data) : input.data[i].archived

\* the step of handleRateLimitError that ends a call: the error names the
\* minutes when rateLimit.get gave the reset time, the hour when it did not
C19_RetryAfter ==
  /\ (userCall.at = "rateCheck" /\ userCall'.at = "rejected") =>
       userCall'.error = (IF rateInfo' = "reset" THEN "RateLimitMinutes" ELSE "RateLimitHour")
  /\ (reposPromise.at = "rateCheck" /\ reposPromise'.at = "rejected") =>
       reposPromise'.error = (IF rateInfo' = "reset" THEN "RateLimitMinutes" ELSE "RateLimitHour")
  /\ \A i \in 1..Len(lookup) :
       (lookup[i].at = "rateCheck" /\ Len(lookup') = Len(lookup) /\ lookup'[i].at = "rejected") =>
         lookup'[i].error = (IF rateInfo' = "reset" THEN "RateLimitMinutes" ELSE "RateLimitHour")

\* C19: in every step, a call that took the rate-limit branch fails with the
\* minutes message when the reset time was obtained, and with the generic hour
\* message only when it was not.
C19_RetryAfterMessage == [][C19_RetryAfter]_vars

\* the fork enrichment of repository i is under way: repos.get or
\* repos.listCommits is in flight
Enriching(i) == lookup[i].at \in {"parent", "commits"}

C20_EnrichmentStep ==
  \A i \in 1..Len(lookup) :
    (Enriching(i) /\ Len(lookup') = Len(lookup)) =>
      lookup'[i].at \in {"parent", "commits", "done"}

\* C20: in every step, the fork enrichment of a repository goes on or ends
\* with the repository returned; it never rejects the repository's map
\* function or enters the rate-limit handler, whatever way repos.get or
\* repos.listCommits fails.
C20_EnrichmentNeverFails == [][C20_EnrichmentStep]_vars

\* a call of the data source has settled: its promise is fulfilled or rejected
UserSettled == userCall.at \in {"ok", "rejected"}
ListSettled == listCall.at \in {"ok", "rejected"}
LookupSettled(i) == lookup[i].at \in {"done", "rejected"}

\* C21: the user fetch and the listing are issued together, the lookups of
\* all repositories are issued together, and getUserRepositories and
\* getDeveloperProfile settle only when every call they joined has settled:
\* no call is in flight when the result or the error is delivered.
C21_GroupJoin ==
  /\ (userCall.at = "idle") = (listCall.at = "idle")
  /\ listCall.at = "ok" => Len(lookup) = Len(repos)
  /\ reposPromise.at \in {"fulfilled", "rejected"} =>
       ListSettled /\ \A i \in 1..Len(lookup) : LookupSettled(i)
  /\ profilePromise.at \in {"fulfilled", "rejected"} =>
       /\ UserSettled /\ ListSettled
       /\ reposPromise.at \in {"fulfilled", "rejected"}
       /\ \A i \in 1..Len(lookup) : LookupSettled(i)

\* the fork fields of a repository record
ForkFields == {"parentRepository", "hasContributions", "contributionsCount"}

\* C22: a repository record carries the fork-origin field or a
\* fork-contribution field only if it is a fork.
C22_ForkFieldsOnlyOnForks ==
  output.kind = "record" =>
    \A key \in ForkFields : key \in DOMAIN output.value => output.value.isFork

\* C23: in every repository record contributionsCount is in 0..100 and
\* hasContributions is true exactly when contributionsCount is positive.
C23_ContributionCount ==
  output.kind = "record" =>
    /\ output.value.contributionsCount \in 0..100
    /\ output.value.hasContributions = (output.value.contributionsCount > 0)

\* a fork in which the handle authored more commits than one page holds
C23_Witness ==
  /\ output.kind = "record"
  /\ input.data.fork /\ input.data.hasParent /\ input.data.authored > 100
  /\ output.value.hasContributions /\ output.value.contributionsCount = 100

\* the slot of the rating has been settled from a completion text
RatingSlot == output.kind = "slot" /\ input.section = "profileRating"

\* C24: the score stored in the rating slot is between 0 and 10 (0 and 100
\* tenths), whatever the completion text.
C24_ScoreRange == RatingSlot => output.value.score \in 0..100

\* the text holds no 'Rating: <number>' token: no "Rating:" followed, after
\* white space only, by digits
NoRatingToken(content) ==
  ~\E i, j \in 1..Len(content) :
     /\ i < j
     /\ content[i] = "Rating:" /\ content[j] \in DigitTokens
     /\ \A k \in (i+1)..(j-1) : IsSpace(content[k])

\* the labels that open the two parts of the explanation
ExplanationLabels == {"Detailed Breakdown:", "Overall Assessment:"}

\* the text holds no explanation: neither label occurs in it
NoExplanation(content) == \A i \in 1..Len(content) : content[i] \notin ExplanationLabels

C26_EmptyContent ==
  (output.kind = "slot" /\ input.section # "profileRating" /\ input.data = << >>) =>
    /\ output.result = Err("CompletionError")
    /\ output.value = Fallback(input.section)
    /\ output.value # << >>

C26_Witness ==
  /\ output.kind = "slot" /\ input.section = "strengths" /\ input.data = << >>
  /\ output.value = << <<"Failed to analyze strengths">> >>

\* no percentage of the sequence comes from a division by zero
AllFinite(entries) == \A i \in 1..Len(entries) : entries[i].percent.finite

\* C27: for a profile whose language bytes add up to zero the language
\* summary is the fixed sentinel, and no percentage in it comes from a
\* division by that zero total.
C27_ZeroTotal ==
  (output.kind = "prepared" /\ SumEntries(input.data.languageStats, Len(input.data.languageStats)) = 0) =>
    /\ output.first.languagePercentages.text = "Language statistics not available"
    /\ AllFinite(output.first.languagePercentages.entries)

\* a profile with languages that all have zero bytes
C27_Witness ==
  /\ output.kind = "prepared"
  /\ Len(input.data.languageStats) = 2
  /\ \A i \in 1..2 : input.data.languageStats[i].bytes = 0
  /\ output.first.languagePercentages.text = "Language statistics not available"

\* the second call on the same profile returns what the first returned
C28_SameResult ==
  (output.kind = "prepared" /\ output.calls = 2) => output.second = output.first

\* a call of the formatter leaves the profile as it was
C28_ProfileUnchanged ==
  (output'.kind = "prepared" /\ output' # output) => input' = input

Started(r) == runs[r].analysis # 0

\* the report and the stream of every request hold only what its own chains
\* produced: a slot is still initial or holds the data of the request's own
\* call for that section, and every event on its stream is its own
C29_OwnValues ==
  \A r \in Requests : Started(r) =>
    /\ \A s \in Sections :
         reports[runs[r].analysis][s] =
           (IF runs[r].calls[s] = "settled" THEN [by |-> r, section |-> s]
            ELSE [by |-> 0, section |-> s])
    /\ \A e \in streams[r] : e.by = r /\ runs[r].calls[e.section] = "settled"

\* a step in which a request does nothing leaves its report and its stream
\* as they were
C29_NoCrossWrite ==
  \A r \in Requests :
    (Started(r) /\ runs'[r] = runs[r]) =>
      /\ reports'[runs[r].analysis] = reports[runs[r].analysis]
      /\ streams'[r] = streams[r]

\* C29: with two requests in flight, under every interleaving of their
\* settlements, each request's report and stream hold only the values of its
\* own section calls, and no settlement of one request writes into the
\* report or onto the stream of the other.
C29_RunIsolation == [](C29_OwnValues) /\ [][C29_NoCrossWrite]_vars

\* both requests are through, their settlements interleaved
C29_Witness ==
  /\ \A r \in Requests : Started(r) /\ \A s \in Sections : runs[r].calls[s] = "settled"
  /\ \A r \in Requests : Cardinality(streams[r]) = Cardinality(Sections)

\* a section call, once issued, is never issued again: it does not return
\* to idle, and once settled it stays as it settled
C30_NoReissue ==
  \A s \in Sections :
    /\ call[s] # "idle" => call'[s] # "idle"
    /\ call[s] \notin {"idle", "pending"} => call'[s] = call[s]

\* C30: in one run the completion service is called at most once for each
\* section; a call that has failed is never issued again.
C30_SingleAttempt == [][C30_NoReissue]_vars

\* a run that returned its report with three failed calls
C30_Witness ==
  /\ run = "resolved" /\ Launched
  /\ Cardinality({ s \in Sections : CallFailed(s) }) = 3
  /\ \A s \in Sections : CallFailed(s) => analysis[s] = Fallback(s)

\* C38: every list slot settled from a completion text is a non-empty
\* sequence of non-empty strings without white space at either end.
C38_ListSlots ==
  (output.kind = "slot" /\ input.section \in ListSections) =>
    /\ output.value # << >>
    /\ \A i \in 1..Len(output.value) :
         /\ output.value[i] # << >>
         /\ ~IsSpace(output.value[i][1])
         /\ ~IsSpace(output.value[i][Len(output.value[i])])

\* C31: when the timer of handleSubmit expires, which happens no earlier than
\* 40 seconds after the submission, with the response not yet arrived, the
\* request is aborted; a request that ended aborted shows the timeout message
\* under the title 'Request Timeout', and no other request shows that
\* message; once handleSubmit has ended, on success, on an error or on the
\* timeout, loading is false, and a request whose response never arrives
\* does end.
C31_ClientTimeout ==
  /\ [](/\ (client.at = "done" /\ client.request = "aborted") =>
             (client.error = TimeoutMessage /\ Title(client.error) = "Request Timeout")
        /\ (client.at = "done" /\ client.request # "aborted") =>
             (client.error # TimeoutMessage
              /\ (client.error # "none" => Title(client.error) # "Request Timeout"))
        /\ client.at \in {"done", "returned"} => ~client.loading)
  /\ [][(client.timer = "armed" /\ client'.timer = "fired") =>
          /\ client.elapsed >= TIMEOUT_DURATION
          /\ client.request = "inflight" => client'.request = "aborted"]_vars
  /\ (client.loading ~> ~client.loading)

C31_Witness ==
  /\ client.at = "done" /\ client.request = "aborted" /\ client.timer = "fired"
  /\ client.error = TimeoutMessage /\ ~client.loading

\* C32: over the requests the username route answers one after another, at
\* most one report is generated for any handle.
C32_OneReportPerHandle ==
  \A h \in Usernames :
    Cardinality({ i \in 1..Len(served) : served[i] = h })
      + (IF Generated = h THEN 1 ELSE 0) <= 1

\* the onUpdate invocations made for a section, and the data of the last one
UpdatesOf(s) == { i \in 1..Len(updates) : updates[i].section = s }
LastUpdate(s) == updates[CHOOSE i \in UpdatesOf(s) : \A j \in UpdatesOf(s) : j <= i].data

\* C33: after every invocation of onUpdate the slot of its section holds the
\* data the invocation was given; a report returned to a caller that passed
\* a callback holds in every slot the data of the last invocation for that
\* section; and when the stream route writes its terminal event for a
\* resolved run, whose payload is the returned report, every slot of the
\* report equals the data of the last section event emitted for it.
C33_EventsMatchReport ==
  /\ [](/\ \A s \in Sections : UpdatesOf(s) # {} => analysis[s] = LastUpdate(s)
        /\ (HasCallback /\ run = "resolved") =>
             \A s \in Sections : UpdatesOf(s) # {} /\ analysis[s] = LastUpdate(s))
  /\ [][(Len(stream') = Len(stream) + 1 /\ stream'[Len(stream')] = "complete") =>
          /\ run = "resolved"
          /\ \A s \in Sections : UpdatesOf(s) # {} /\ analysis[s] = LastUpdate(s)
          /\ analysis' = analysis]_vars

C33_Witness ==
  /\ entry = "stream" /\ variant = "plain" /\ run = "resolved"
  /\ Len(stream) = 6 /\ stream[6] = "complete"
  /\ \E s \in Sections : CallFailed(s) /\ analysis[s] = Fallback(s)
  /\ \E s \in Sections : call[s] = "fulfilled"

\* C34: on every path of a request of the stream route writer.close() is
\* called at most once, no write is issued after it, the promise chain of
\* the handler never ends rejected, and once the chain has ended close has
\* been called exactly once.
C34_ClosedOnce ==
  /\ chain.closes <= 1
  /\ chain.lateWrites = 0
  /\ ~chain.unhandled
  /\ (entry = "stream" /\ pc = "done" /\ response.status = 200) => chain.closes = 1

\* C35: after a write of the callback of the stream route has failed, no
\* invocation of the callback has raised, every slot written for a
\* fulfilled call holds the value of that call and was written once, the run
\* of a launched analysis has not rejected, and a run that resolved has
\* invoked the callback for every section.
C35_WriteFailureContained ==
  chain.writeFailed =>
    /\ raises = 0
    /\ \A s \in Sections :
         (call[s] = "fulfilled" /\ writes[s] > 0) =>
           (analysis[s] = returned[s] /\ writes[s] = 1)
    /\ Launched => run # "rejected"
    /\ run = "resolved" => Len(updates) = Cardinality(Sections)

C35_Witness ==
  /\ chain.writeFailed /\ writer = "errored" /\ run = "resolved"
  /\ \A s \in Sections : writes[s] = 1
  /\ \E s \in Sections : call[s] = "fulfilled" /\ analysis[s] = returned[s]
  /\ \E s \in Sections : CallFailed(s) /\ analysis[s] = Fallback(s)

\* a step in which the language lookup of a repository settles
C36_LanguageStep ==
  \A i \in 1..Len(lookup) :
    (Len(lookup') = Len(lookup) /\ lookup[i].at = "languages" /\ lookup'[i] # lookup[i]) =>
      \/ lookup'[i].at \in {"parent", "done"}
      \/ lookup'[i].at = "rateCheck" /\ IsRateLimit(lookup'[i].error)

\* C36: in every step, a language lookup that settles either lets the map
\* function of its repository go on (with the languages returned, or with
\* the empty map after a failure that is not a rate limit) or, on a
\* rate-limit failure only, enters the rate-limit handler; it never rejects
\* the map function with another error.
C36_LanguagesContained == [][C36_LanguageStep]_vars

\* a failure caused by the quota of the data source, raw or as rethrown by
\* handleRateLimitError
IsRateLimitFailure(e) == e \in {"RateLimit403", "RateLimitHour", "RateLimitMinutes"}

\* the error an answered request of a username endpoint failed with
FailureOf ==
  IF entry = "user" THEN userCall.error
  ELSE IF profilePromise.at = "rejected" THEN profilePromise.error
  ELSE "Failed to analyze developer profile"

RequestFailed ==
  IF entry = "user" THEN userCall.at = "rejected"
  ELSE profilePromise.at = "rejected" \/ run = "rejected"

\* C37: on the endpoints that take a username, a request without one is
\* answered 400 and never issues a call to the data source or the completion
\* service, no other request is answered 400, and an answered request
\* that failed carries the message of its failure with status 429 when the
\* failure is a rate-limit failure and 500 otherwise (a handle not found
\* included); a request that did not fail is answered 200.
C37_HttpOutcome ==
  entry \in {"username", "user"} =>
    /\ username = "" =>
         /\ userCall = Idle /\ listCall = Idle /\ run = "idle" /\ ~Launched
         /\ pc = "done" => response = [status |-> 400, body |-> "GitHub username is required"]
    /\ response.status = 400 => username = ""
    /\ (pc = "done" /\ username # "") =>
         IF RequestFailed
         THEN /\ response.body = FailureOf
              /\ response.status = IF IsRateLimitFailure(FailureOf) THEN 429 ELSE 500
              /\ FailureOf = "NotFound" => response.status = 500
         ELSE response.status = 200

C37_Witness ==
  /\ entry = "user" /\ pc = "done" /\ userCall.at = "rejected"
  /\ response = [status |-> 429, body |-> "RateLimitHour"]
  /\ rateInfo = "reset"

====
